---- MODULE Spec2Model ----
(***************************************************************************)
(* MediaApp: the asynchronous ingestion pipeline.                          *)
(*                                                                         *)
(*   - the admission gate (a buffered channel used as a counting          *)
(*     semaphore) in front of the two guarded HTTP handlers,               *)
(*     internal/handler/handler.go;                                        *)
(*   - the work queue (publisher and consume loop),                        *)
(*     internal/rabbitmq/client.go, with the broker as environment;        *)
(*   - the ingestion engine (photoUseCase), internal/usecase/              *)
(*     photo_interactor.go, with PhotoSource, BlobStore and PhotoStore     *)
(*     as collaborators whose failures are environment choices.            *)
(*                                                                         *)
(* A use-case invocation is a small process (one step per collaborator     *)
(* call), owned by its caller: caller 0 is a sequential caller (the        *)
(* worker's handler, or a client calling the engine in sequence), callers  *)
(* 1..NumReq are the HTTP requests.                                        *)
(***************************************************************************)
EXTENDS Integers, Sequences, FiniteSets, TLC

\* ------------------------------------------------------------------ bounds
GateCap == 1      \* cap(uploadLimiter) of the handler under analysis
NumReq == 2       \* concurrent HTTP requests
MaxCalls == 2     \* engine calls made in sequence by caller 0
MaxMsgs == 2      \* messages published to the queue by other producers

\* ------------------------------------------------------- program constants
DefaultPerPage == 3        \* photo_interactor.go:135, handler.go:123
DefaultPage == 1           \* photo_interactor.go:138, handler.go:117
MaxPerPage == 100          \* handler.go:122

Reqs == 1..NumReq
Callers == 0..NumReq
SeqCaller == CHOOSE c \in Callers : c \notin Reqs

VARIABLES
  uploadLimiter,  \* number of tokens in the buffered channel h.uploadLimiter
  hreq,           \* the HTTP requests: handler, position, context, response
  uc,             \* the use-case invocation of each caller
  ncalls,         \* calls started so far by the sequential caller
  photos,         \* table photos: a set of rows
  users,          \* table users: the ids of the rows with username system_user
  blobs,          \* BlobStore: the keys holding an object
  resolved,       \* history: external ids a resolve call has returned success for
  pipelines,      \* history: per external id, resolve calls whose SavePhoto returned nil
  storeImpl,      \* which PhotoStorage is wired: "storage" (di/container.go) or "postgres" (main.go)
  ready,          \* broker: messages ready in the queue, head first
  inflight,       \* broker: deliveries pushed to the consumer, not yet received by the loop
  cons,           \* the consume loop: position, current delivery, its terminal actions
  chanOpen,       \* the AMQP channel (and with it the delivery channel msgs) is open
  workerCtx,      \* "live", "cancelled" (the context given to StartConsuming), "exited"
  mstat,          \* history per message id: what the loop has done with it
  npub            \* messages published so far by other producers

vars == <<uploadLimiter, hreq, uc, ncalls, photos, users, blobs, resolved, pipelines,
          storeImpl, ready, inflight, cons, chanOpen, workerCtx, mstat, npub>>

gateVars == <<uploadLimiter, hreq>>
engineVars == <<uc, ncalls, photos, users, blobs, resolved, pipelines, storeImpl>>
queueVars == <<ready, inflight, cons, chanOpen, workerCtx, mstat, npub>>

\* ------------------------------------------------------------ domain data
ExtIDs == {"a", "b", "c"}

NilUUID == 0

\* uuid.New(): a value unique to the caller, the caller's call and the position in it.
NewUUID(c, serial, k) == serial * 100 + c * 10 + k + 1

\* The columns of domain.Photo the pipeline only carries along.
MetaColumns == {"title", "description", "author_name", "width", "height", "likes_count",
                "uploaded_at", "views_count", "downloads_count"}

\* The zero value of each of them.
ZeroMeta == [col \in MetaColumns |-> <<>>]

\* domain.Photo: the fields the pipeline reads or writes, and the others as meta.
NoPhoto == [id |-> NilUUID, unsplashID |-> "", userID |-> NilUUID,
            s3URL |-> <<>>, originalURL |-> <<>>, meta |-> ZeroMeta]

\* UnsplashAPIClient.mapUnsplashPhotoToDomain: a fresh internal id, no S3 URL yet.
mapUnsplashPhotoToDomain(extID, uuid) ==
  [id |-> uuid, unsplashID |-> extID, userID |-> NilUUID,
   s3URL |-> <<>>, originalURL |-> <<"urls.full", extID>>,
   meta |-> [col \in MetaColumns |-> <<col, extID>>]]

\* The upstream catalog (environment): the ids a query matches, in rank order.
Catalog(query) == IF query = "q" THEN <<"a", "b", "c", "a">> ELSE <<>>

Min(x, y) == IF x <= y THEN x ELSE y

\* GET /search/photos?query&page&per_page at the catalog: the page-th slice of size perPage.
SearchPhotosFromExternal(query, page, perPage) ==
  LET all == Catalog(query)
      lo == (page - 1) * perPage + 1
      hi == Min(page * perPage, Len(all))
  IN IF lo > hi THEN <<>> ELSE SubSeq(all, lo, hi)

\* ------------------------------------------------------------- BlobStore
\* fmt.Sprintf("unsplash-photos/%s", unsplashPhoto.UnsplashID)
ResolveS3Key(extID) == <<"unsplash-photos", extID>>

\* Fault injection for C28: the batch keeps its objects under a prefix of its own.
KeyPerOperation(extID) == <<"unsplash-search", extID>>

\* fmt.Sprintf("unsplash-photos/%s", photo.UnsplashID)
BatchS3Key(extID) == <<"unsplash-photos", extID>>

\* Fault injection for C15: an upload that reports success with no location.
NoLocation(key) == <<>>

\* minio Client.UploadFile on success: the object's location for that key.
UploadURL(key) == <<"bucket", key>>

\* minio Client.DeleteFile(ctx, objectKey): DeleteObject takes the key out of the
\* bucket (a key that holds no object is no error), or fails and leaves the bucket as
\* it is. The method belongs to the FileStorage port; the pipeline, the handlers and
\* the worker never call it.
DeleteFile ==
  /\ \E extID \in ExtIDs, ok \in BOOLEAN :
       blobs' = IF ok THEN blobs \ {ResolveS3Key(extID)} ELSE blobs
  /\ UNCHANGED <<uc, ncalls, photos, users, resolved, pipelines, storeImpl, gateVars,
                 queueVars>>

\* ------------------------------------------------------------ PhotoStore
RowsOf(tbl, extID) == {p \in tbl : p.unsplashID = extID}

\* Fault injection for C7: a lookup that never matches a row.
LookupMisses(tbl, extID) == NoPhoto

\* SELECT * FROM photos WHERE unsplash_id = $1 LIMIT 1: a row or NoPhoto (nil, nil).
GetPhotosByUnsplashIDFromDB(tbl, extID) ==
  IF RowsOf(tbl, extID) = {} THEN NoPhoto
  ELSE CHOOSE p \in RowsOf(tbl, extID) : \A q \in RowsOf(tbl, extID) : p.id <= q.id

\* A table without the UNIQUE constraint on unsplash_id.
NoUniqueIndex(tbl, extID) == FALSE

\* photos.unsplash_id is UNIQUE: a second row with the same value is a violation.
UniqueViolation(tbl, extID) == RowsOf(tbl, extID) # {}

\* photos.id is the PRIMARY KEY: a second row with the same id is a violation.
PrimaryKeyTaken(tbl, id) == \E q \in tbl : q.id = id

\* INSERT INTO photos ... ON CONFLICT (unsplash_id) DO NOTHING: a taken unsplash_id
\* writes nothing and is no error; the clause does not cover the primary key, so a
\* taken id under another unsplash_id is a duplicate-key error, and nothing is
\* written either.
InsertPhoto(tbl, p) ==
  IF UniqueViolation(tbl, p.unsplashID) \/ PrimaryKeyTaken(tbl, p.id) THEN tbl
  ELSE tbl \cup {p}

\* The error of that INSERT: the duplicate key it does not arbitrate.
InsertPhotoFails(tbl, p) == ~UniqueViolation(tbl, p.unsplashID) /\ PrimaryKeyTaken(tbl, p.id)

\* A users table without the UNIQUE constraint on username.
NoUniqueName(usr) == FALSE

\* users.username is UNIQUE and every account of the model is named 'system_user'.
UsernameTaken(usr) == usr # {}

\* The two PhotoStorage implementations of the repository: internal/database/storage
\* (wired by di/container.go) and internal/database/postgres (wired by main.go).
StoreImpls == {"storage", "postgres"}

\* The db tags of domain.Photo: the names sqlx can bind from the struct.
PhotoTags ==
  {"id", "unsplash_id", "user_id", "s3_url", "original_url", "created_at", "updated_at"}
    \cup MetaColumns

\* The columns of table photos, and those declared NOT NULL without a default.
TableColumns ==
  {"id", "unsplash_id", "user_id", "s3_url", "original_url", "created_at", "updated_at"}
    \cup MetaColumns

RequiredColumns ==
  {"unsplash_id", "user_id", "s3_url", "author_name", "width", "height", "original_url"}

\* The column list (and named parameters) of each implementation's INSERT.
SaveColumns(impl) ==
  IF impl = "storage"
  THEN {"id", "unsplash_id", "title", "description", "author_name", "width", "height",
        "url_full", "url_thumb", "uploaded_at", "created_at", "updated_at"}
  ELSE {"id", "unsplash_id", "user_id", "s3_url", "title", "description", "author_name",
        "width", "height", "likes_count", "original_url", "uploaded_at", "views_count",
        "downloads_count"}

\* sqlx NamedExec binds every :name from the struct's db tags, or fails with
\* "could not find name".
BindNamed(cols) == cols \subseteq PhotoTags

\* The server takes the INSERT: every column exists and no NOT NULL column without a
\* default is left out.
InsertAccepted(cols) == cols \subseteq TableColumns /\ RequiredColumns \subseteq cols

\* time.Now() as SavePhoto may read it: the nanoseconds within the second.
NowNanos == {2000, 2500}

\* A TIMESTAMP WITH TIME ZONE column keeps microseconds: lib/pq sends the time with
\* its nanoseconds and the server rounds. Times of the catalog are whole seconds.
Timestamptz(v) ==
  IF v # <<>> /\ v[1] = "now" THEN <<"now", ((v[2] + 500) \div 1000) * 1000>> ELSE v

\* What a column of the table makes of a bound value: uuid, text and integer columns
\* keep it (or the statement fails), timestamps are rounded.
ColumnValue(col, v) == IF col = "uploaded_at" THEN Timestamptz(v) ELSE v

\* The value a column gets: the bound one if the INSERT names the column.
Stored(cols, col, value, default) == IF col \in cols THEN ColumnValue(col, value) ELSE default

\* Fault injection for C31: the row is written without its owner.
RowWithoutOwner(cols, p) ==
  [id |-> Stored(cols, "id", p.id, NilUUID),
   unsplashID |-> Stored(cols, "unsplash_id", p.unsplashID, ""),
   userID |-> NilUUID,
   s3URL |-> Stored(cols, "s3_url", p.s3URL, <<>>),
   originalURL |-> Stored(cols, "original_url", p.originalURL, <<>>),
   meta |-> [col \in MetaColumns |-> Stored(cols, col, p.meta[col], <<>>)]]

\* The row an accepted INSERT with these columns writes for photo p.
WrittenRow(cols, p) ==
  [id |-> Stored(cols, "id", p.id, NilUUID),
   unsplashID |-> Stored(cols, "unsplash_id", p.unsplashID, ""),
   userID |-> Stored(cols, "user_id", p.userID, NilUUID),
   s3URL |-> Stored(cols, "s3_url", p.s3URL, <<>>),
   originalURL |-> Stored(cols, "original_url", p.originalURL, <<>>),
   meta |-> [col \in MetaColumns |-> Stored(cols, col, p.meta[col], <<>>)]]

\* Fault injection for C32: INSERT ... ON CONFLICT (unsplash_id) DO UPDATE, the row of
\* the external id is replaced by the new one.
SaveUpserts(impl, tbl, usr, photo, fresh, freshUser, now, dbErr) ==
  LET withID == IF photo.id = NilUUID THEN [photo EXCEPT !.id = fresh] ELSE photo
      sys == IF usr = {} THEN freshUser ELSE CHOOSE u \in usr : \A v \in usr : u <= v
      owned == [withID EXCEPT !.userID = sys,
                              !.meta["uploaded_at"] = IF @ = <<>> THEN <<"now", now>> ELSE @]
  IN IF dbErr # "none" THEN [err |-> TRUE, photos |-> tbl, users |-> usr, photo |-> photo]
     ELSE [err |-> FALSE,
           photos |-> (tbl \ RowsOf(tbl, owned.unsplashID))
                        \cup {WrittenRow(SaveColumns("postgres"), owned)},
           users |-> usr \cup {sys}, photo |-> owned]

\* Fault injection for C37: the INSERT of postgres/client.go with ON CONFLICT
\* (unsplash_id) DO NOTHING: a save that meets a row of the external id writes
\* nothing and returns nil, leaving the caller with its own photo.
SaveIgnoresConflict(impl, tbl, usr, photo, fresh, freshUser, now, dbErr) ==
  LET withID == IF photo.id = NilUUID THEN [photo EXCEPT !.id = fresh] ELSE photo
      sys == IF usr = {} THEN freshUser ELSE CHOOSE u \in usr : \A v \in usr : u <= v
      owned == [withID EXCEPT !.userID = sys,
                              !.meta["uploaded_at"] = IF @ = <<>> THEN <<"now", now>> ELSE @]
  IN IF dbErr # "none" THEN [err |-> TRUE, photos |-> tbl, users |-> usr, photo |-> photo]
     ELSE [err |-> FALSE,
           photos |-> InsertPhoto(tbl, WrittenRow(SaveColumns("postgres"), owned)),
           users |-> usr \cup {sys}, photo |-> owned]

\* The statement of this implementation can be executed at all.
Executable(impl) == BindNamed(SaveColumns(impl)) /\ InsertAccepted(SaveColumns(impl))

\* SavePhoto of either implementation on tables tbl and usr; fresh and freshUser are
\* the uuid.New() values it may draw; dbErr: the statement the database fails at for
\* a reason of its own (connection, value out of a column's range), "none",
\* "account" (getOrCreateSystemUser) or "insert" (the INSERT INTO photos). It returns
\* the error, the tables and the photo as the caller's pointer sees it afterwards.
\*   storage:  a nil ID is replaced; INSERT ... ON CONFLICT (unsplash_id) DO NOTHING,
\*             its one statement.
\*   postgres: the owner is set to the system user (created if missing), a nil ID and
\*             a zero UploadedAt are replaced; plain INSERT, so a taken unsplash_id or
\*             id is a unique violation. An INSERT that fails leaves the account
\*             created and the caller's photo with owner, ID and UploadedAt set.
SavePhoto(impl, tbl, usr, photo, fresh, freshUser, now, dbErr) ==
  LET cols == SaveColumns(impl)
      withID == IF photo.id = NilUUID THEN [photo EXCEPT !.id = fresh] ELSE photo
      sys == IF usr = {} THEN freshUser ELSE CHOOSE u \in usr : \A v \in usr : u <= v
      owned == [withID EXCEPT !.userID = sys,
                              !.meta["uploaded_at"] = IF @ = <<>> THEN <<"now", now>> ELSE @]
  IN IF impl = "storage"
     THEN IF dbErr # "none" \/ ~Executable(impl)
               \/ InsertPhotoFails(tbl, WrittenRow(cols, withID))
          THEN [err |-> TRUE, photos |-> tbl, users |-> usr, photo |-> withID]
          ELSE [err |-> FALSE, photos |-> InsertPhoto(tbl, WrittenRow(cols, withID)),
                users |-> usr, photo |-> withID]
     ELSE IF dbErr = "account"
          THEN [err |-> TRUE, photos |-> tbl, users |-> usr, photo |-> photo]
          ELSE IF dbErr = "insert" \/ ~Executable(impl)
                    \/ UniqueViolation(tbl, owned.unsplashID)
                    \/ PrimaryKeyTaken(tbl, owned.id)
               THEN [err |-> TRUE, photos |-> tbl, users |-> usr \cup {sys}, photo |-> owned]
               ELSE [err |-> FALSE, photos |-> tbl \cup {WrittenRow(cols, owned)},
                     users |-> usr \cup {sys}, photo |-> owned]

\* ------------------------------------------------------- use-case records
\* ops: the collaborator calls made so far by a resolve call, or for the current item
\* of a batch; pre: those a batch made before its item loop; ilog: one entry per item
\* the loop has finished; hit: what the dedup lookup of a resolve call found; fres: what its fetch
\* came to; prior:
\* an earlier resolve call had already returned success for this external id; known:
\* PhotoStore held a row for the external id when the call (or the item) began.
IdleCall == [op |-> "none", pc |-> "idle", id |-> "", query |-> "", page |-> 0,
             perPage |-> 0, sargs |-> <<>>, cur |-> NoPhoto, items |-> <<>>,
             sysUser |-> NilUUID, out |-> <<>>, ilog |-> <<>>, ops |-> {}, pre |-> {},
             hit |-> "none", fres |-> "none", prior |-> FALSE, known |-> FALSE, err |-> "none", serial |-> 0]

\* Entering GetOrCreatePhotoByUnsplashID(ctx, unsplashID).
CallResolve(old, extID) ==
  [IdleCall EXCEPT !.op = "resolve", !.pc = "r_lookup", !.id = extID,
                   !.prior = (extID \in resolved),
                   !.known = (RowsOf(photos, extID) # {}), !.serial = old.serial + 1]

\* Entering SearchAndSavePhotos(ctx, query, page, perPage).
CallSearch(old, query, page, perPage) ==
  [IdleCall EXCEPT !.op = "search", !.pc = "s_search", !.query = query, !.page = page,
                   !.perPage = perPage, !.serial = old.serial + 1]

\* Fault injection for C23: the failure is logged and the call reports success.
SwallowErr(call, kind) == [call EXCEPT !.pc = "done", !.err = "nil"]

\* return nil, fmt.Errorf(...)
ReturnErr(call, kind) == [call EXCEPT !.pc = "done", !.err = kind, !.cur = NoPhoto, !.out = <<>>]

Busy(c) == uc[c].pc \notin {"idle", "done"}

\* ---------------------------------------------- GetOrCreatePhotoByUnsplashID
\* UnsplashAPIClient.fetchAndMapPhoto: res is what the HTTP exchange came to.
fetchAndMapPhoto(extID, uuid, res) ==
  IF res = "ok" THEN [err |-> "nil", photo |-> mapUnsplashPhotoToDomain(extID, uuid)]
  ELSE [err |-> res, photo |-> NoPhoto]

\* What the catalog can answer for GET /photos/{id}: 200 only for an id it knows,
\* 404 ("notfound") for one it does not; "status" is any other non-200 answer (401,
\* 403, 5xx), "transport" a failed exchange.
FetchOutcomes(extID) ==
  IF extID \in ExtIDs THEN {"ok", "transport", "status", "decode"}
  ELSE {"transport", "status", "notfound"}

\* Fault injection for C8: a found row is not recognised as found.
NeverFound(photo) == FALSE

\* The dedup lookup's two tests: a store error other than sql.ErrNoRows returns it,
\* a non-nil photo is returned as found.
LookupFound(photo) == photo # NoPhoto

\* 1. photoStorage.GetPhotosByUnsplashIDFromDB; found: return it.
UcResolveLookup(c) ==
  /\ uc[c].pc = "r_lookup"
  /\ \E dbErr \in BOOLEAN :
       LET call == [uc[c] EXCEPT !.ops = @ \cup {"get"}]
           photo == GetPhotosByUnsplashIDFromDB(photos, call.id)
       IN /\ uc' = [uc EXCEPT ![c] =
                 IF dbErr THEN ReturnErr([call EXCEPT !.hit = "error"], "DedupLookupFailed")
                 ELSE IF LookupFound(photo)
                      THEN [call EXCEPT !.pc = "done", !.hit = "found", !.cur = photo,
                                        !.err = "nil"]
                      ELSE [call EXCEPT !.pc = "r_fetch", !.hit = "absent"]]
          /\ resolved' = IF ~dbErr /\ LookupFound(photo) THEN resolved \cup {call.id}
                         ELSE resolved
  /\ UNCHANGED <<storeImpl, ncalls, photos, users, blobs, pipelines, gateVars, queueVars>>

\* 2. photoFetcher.FetchPhotoByIDFromExternal
UcResolveFetch(c) ==
  /\ uc[c].pc = "r_fetch"
  /\ \E res \in FetchOutcomes(uc[c].id) :
       LET call == [uc[c] EXCEPT !.ops = @ \cup {"fetch"}, !.fres = res]
           r == fetchAndMapPhoto(call.id, NewUUID(c, call.serial, 0), res)
       IN uc' = [uc EXCEPT ![c] =
              IF r.err # "nil" THEN ReturnErr(call, "SourceFetchFailed")
              ELSE IF r.photo = NoPhoto THEN ReturnErr(call, "SourceNotFound")
              ELSE [call EXCEPT !.pc = "r_download", !.cur = r.photo]]
  /\ UNCHANGED <<storeImpl, ncalls, photos, users, blobs, resolved, pipelines, gateVars, queueVars>>

\* 3. http.Get(unsplashPhoto.OriginalURL) and the status test
UcResolveDownload(c) ==
  /\ uc[c].pc = "r_download"
  /\ \E res \in {"ok", "err", "status"} :
       LET call == [uc[c] EXCEPT !.ops = @ \cup {"download"}]
       IN uc' = [uc EXCEPT ![c] =
              IF res = "err" THEN ReturnErr(call, "BinaryDownloadFailed")
              ELSE IF res = "status" THEN ReturnErr(call, "UnexpectedDownloadStatus")
              ELSE [call EXCEPT !.pc = "r_upload"]]
  /\ UNCHANGED <<storeImpl, ncalls, photos, users, blobs, resolved, pipelines, gateVars, queueVars>>

\* fileStorage.UploadFile under the key of the external id; the URL is attached.
UcResolveUpload(c) ==
  /\ uc[c].pc = "r_upload"
  /\ \E ok \in BOOLEAN :
       LET call == [uc[c] EXCEPT !.ops = @ \cup {"upload"}]
           key == ResolveS3Key(call.cur.unsplashID)
       IN /\ uc' = [uc EXCEPT ![c] =
                 IF ~ok THEN ReturnErr(call, "BlobUploadFailed")
                 ELSE [call EXCEPT !.pc = "account", !.cur.s3URL = UploadURL(key)]]
          /\ blobs' = IF ok THEN blobs \cup {key} ELSE blobs
  /\ UNCHANGED <<storeImpl, ncalls, photos, users, resolved, pipelines, gateVars, queueVars>>

\* ------------------------------------------------------ GetOrCreateSystemUser
\* UserStorage.GetOrCreateSystemUser, first statement:
\* SELECT * FROM users WHERE username = 'system_user'
UcAccountSelect(c) ==
  /\ uc[c].pc = "account"
  /\ \E dbErr \in BOOLEAN :
       LET call == IF uc[c].op = "resolve"
                   THEN [uc[c] EXCEPT !.ops = @ \cup {"account"}]
                   ELSE [uc[c] EXCEPT !.pre = @ \cup {"account"}]
           found == CHOOSE u \in users : \A v \in users : u <= v
       IN uc' = [uc EXCEPT ![c] =
              IF dbErr THEN ReturnErr(call, "AccountResolutionFailed")
              ELSE IF users = {} THEN [call EXCEPT !.pc = "account_ins"]
              ELSE [call EXCEPT !.sysUser = found,
                                !.pc = IF call.op = "resolve" THEN "r_save" ELSE "s_item"]]
  /\ UNCHANGED <<storeImpl, ncalls, photos, users, blobs, resolved, pipelines, gateVars, queueVars>>

\* UserStorage.GetOrCreateSystemUser after sql.ErrNoRows: INSERT INTO users; username
\* is UNIQUE, so the statement fails when a row with that name is already there.
UcAccountInsert(c) ==
  /\ uc[c].pc = "account_ins"
  /\ \E dbErr \in BOOLEAN :
       LET call == uc[c]
           newID == NewUUID(c, call.serial, 9)
           fails == dbErr \/ UsernameTaken(users)
       IN /\ uc' = [uc EXCEPT ![c] =
                 IF fails THEN ReturnErr(call, "AccountResolutionFailed")
                 ELSE [call EXCEPT !.sysUser = newID,
                                   !.pc = IF call.op = "resolve" THEN "r_save" ELSE "s_item"]]
          /\ users' = IF fails THEN users ELSE users \cup {newID}
  /\ UNCHANGED <<storeImpl, ncalls, photos, blobs, resolved, pipelines, gateVars, queueVars>>

\* 4. unsplashPhoto.UserID = systemUserID; photoStorage.SavePhoto; return the photo.
UcResolveSave(c) ==
  /\ uc[c].pc = "r_save"
  /\ \E dbErr \in {"none", "account", "insert"}, now \in NowNanos :
       LET call == [uc[c] EXCEPT !.ops = @ \cup {"save"}, !.cur.userID = uc[c].sysUser]
           r == SavePhoto(storeImpl, photos, users, call.cur, NewUUID(c, call.serial, 7),
                          NewUUID(c, call.serial, 8), now, dbErr)
       IN /\ uc' = [uc EXCEPT ![c] =
                 IF r.err THEN ReturnErr(call, "PersistFailed")
                 ELSE [call EXCEPT !.pc = "done", !.err = "nil", !.cur = r.photo]]
          /\ photos' = r.photos
          /\ users' = r.users
          /\ resolved' = IF r.err THEN resolved ELSE resolved \cup {call.id}
          /\ pipelines' = IF r.err THEN pipelines
                          ELSE [pipelines EXCEPT ![call.id] = @ + 1]
  /\ UNCHANGED <<storeImpl, ncalls, blobs, gateVars, queueVars>>

\* ------------------------------------------------------- SearchAndSavePhotos
\* Fault injection for C10: perPage passed on as given.
PerPageAsGiven(perPage) == perPage

\* if perPage <= 0 { perPage = 3 }
NormalizePerPage(perPage) == IF perPage <= 0 THEN DefaultPerPage ELSE perPage

\* if page <= 0 { page = 1 }
NormalizePage(page) == IF page <= 0 THEN DefaultPage ELSE page

\* `continue` without append: the item is skipped.
SkipItem(call, st) ==
  [call EXCEPT !.ilog = Append(@, [st |-> st, ops |-> call.ops, known |-> call.known,
                                   rec |-> NoPhoto]),
               !.ops = {}, !.cur = NoPhoto, !.known = FALSE]

\* Fault injection for C27: the item of the search result is appended, not the row.
KeepFetched(call, st, rec) ==
  [call EXCEPT !.ilog = Append(@, [st |-> st, ops |-> call.ops, known |-> call.known,
                                   rec |-> call.items[Len(call.ilog) + 1]]),
               !.out = Append(@, call.items[Len(call.ilog) + 1]),
               !.ops = {}, !.cur = NoPhoto, !.known = FALSE]

\* savedPhotos = append(savedPhotos, rec), then on to the next item.
KeepItem(call, st, rec) ==
  [call EXCEPT !.ilog = Append(@, [st |-> st, ops |-> call.ops, known |-> call.known,
                                   rec |-> rec]),
               !.out = Append(@, rec), !.ops = {}, !.cur = NoPhoto, !.known = FALSE]

\* Fault injection for C9: the loop ends at the first skipped item (break for continue).
BreakOnSkip(call) ==
  IF Len(call.ilog) >= Len(call.items) \/ call.ilog[Len(call.ilog)].rec = NoPhoto
  THEN [call EXCEPT !.pc = "done", !.err = "nil"]
  ELSE [call EXCEPT !.pc = "s_item"]

\* The range loop's condition: the next item, or return savedPhotos, nil.
LoopNext(call) ==
  IF Len(call.ilog) >= Len(call.items) THEN [call EXCEPT !.pc = "done", !.err = "nil"]
  ELSE [call EXCEPT !.pc = "s_item"]

\* Fault injection for C30: an empty result is reported as a failed search.
ErrorOnEmpty(call, found) ==
  IF Len(found) = 0 THEN ReturnErr(call, "SourceFetchFailed")
  ELSE [call EXCEPT !.pc = "account", !.items = found]

\* if len(externalPhotos) == 0 { return []domain.Photo{}, nil }, else on to
\* GetOrCreateSystemUser and the item loop.
AfterSearch(call, found) ==
  IF Len(found) = 0 THEN [call EXCEPT !.pc = "done", !.err = "nil"]
  ELSE [call EXCEPT !.pc = "account", !.items = found]

\* Normalisation, then photoFetcher.SearchPhotosFromExternal (fres: what it came to).
UcSearchQuery(c) ==
  /\ uc[c].pc = "s_search"
  /\ \E srcErr \in BOOLEAN :
       LET pp == NormalizePerPage(uc[c].perPage)
           pg == NormalizePage(uc[c].page)
           call == [uc[c] EXCEPT !.pre = @ \cup {"search"}, !.sargs = <<uc[c].query, pg, pp>>,
                                 !.fres = IF srcErr THEN "transport" ELSE "ok"]
           ids == SearchPhotosFromExternal(call.query, pg, pp)
           found == [k \in 1..Len(ids) |->
                       mapUnsplashPhotoToDomain(ids[k], NewUUID(c, call.serial, k))]
       IN uc' = [uc EXCEPT ![c] =
              IF srcErr THEN ReturnErr(call, "SourceFetchFailed")
              ELSE AfterSearch(call, found)]
  /\ UNCHANGED <<storeImpl, ncalls, photos, users, blobs, resolved, pipelines, gateVars, queueVars>>

\* Loop body, dedup: GetPhotosByUnsplashIDFromDB(photo.UnsplashID)
UcItemLookup(c) ==
  /\ uc[c].pc = "s_item"
  /\ \E dbErr \in BOOLEAN :
       LET photo == uc[c].items[Len(uc[c].ilog) + 1]
           call == [uc[c] EXCEPT !.ops = {"get"},
                                 !.known = (RowsOf(photos, photo.unsplashID) # {})]
           existing == GetPhotosByUnsplashIDFromDB(photos, photo.unsplashID)
       IN uc' = [uc EXCEPT ![c] =
              IF dbErr THEN LoopNext(SkipItem(call, "skip_lookup"))
              ELSE IF LookupFound(existing) THEN LoopNext(KeepItem(call, "existing", existing))
              ELSE [call EXCEPT !.pc = "s_download", !.cur = photo]]
  /\ UNCHANGED <<storeImpl, ncalls, photos, users, blobs, resolved, pipelines, gateVars, queueVars>>

\* http.Get(photo.OriginalURL) and the status test
UcItemDownload(c) ==
  /\ uc[c].pc = "s_download"
  /\ \E res \in {"ok", "err", "status"} :
       LET call == [uc[c] EXCEPT !.ops = @ \cup {"download"}]
       IN uc' = [uc EXCEPT ![c] =
              IF res = "err" THEN LoopNext(SkipItem(call, "skip_download"))
              ELSE IF res = "status" THEN LoopNext(SkipItem(call, "skip_status"))
              ELSE [call EXCEPT !.pc = "s_upload"]]
  /\ UNCHANGED <<storeImpl, ncalls, photos, users, blobs, resolved, pipelines, gateVars, queueVars>>

\* fileStorage.UploadFile; photo.S3URL = s3URL; photo.UserID = systemUserID
UcItemUpload(c) ==
  /\ uc[c].pc = "s_upload"
  /\ \E ok \in BOOLEAN :
       LET call == [uc[c] EXCEPT !.ops = @ \cup {"upload"}]
           key == BatchS3Key(call.cur.unsplashID)
       IN /\ uc' = [uc EXCEPT ![c] =
                 IF ~ok THEN LoopNext(SkipItem(call, "skip_upload"))
                 ELSE [call EXCEPT !.pc = "s_save", !.cur.s3URL = UploadURL(key),
                                   !.cur.userID = call.sysUser]]
          /\ blobs' = IF ok THEN blobs \cup {key} ELSE blobs
  /\ UNCHANGED <<storeImpl, ncalls, photos, users, resolved, pipelines, gateVars, queueVars>>

\* photoStorage.SavePhoto(ctx, &photo); savedPhotos = append(savedPhotos, photo)
UcItemSave(c) ==
  /\ uc[c].pc = "s_save"
  /\ \E dbErr \in {"none", "account", "insert"}, now \in NowNanos :
       LET call == [uc[c] EXCEPT !.ops = @ \cup {"save"}]
           r == SavePhoto(storeImpl, photos, users, call.cur, NewUUID(c, call.serial, 7),
                          NewUUID(c, call.serial, 8), now, dbErr)
       IN /\ uc' = [uc EXCEPT ![c] =
                 IF r.err THEN LoopNext(SkipItem(call, "skip_save"))
                 ELSE LoopNext(KeepItem(call, "saved", r.photo))]
          /\ photos' = r.photos
          /\ users' = r.users
  /\ UNCHANGED <<storeImpl, ncalls, blobs, resolved, pipelines, gateVars, queueVars>>

\* One step of caller c's GetOrCreatePhotoByUnsplashID.
UcResolveStep(c) ==
  \/ UcResolveLookup(c)
  \/ UcResolveFetch(c)
  \/ UcResolveDownload(c)
  \/ UcResolveUpload(c)
  \/ UcAccountSelect(c)
  \/ UcAccountInsert(c)
  \/ UcResolveSave(c)

\* One step of caller c's SearchAndSavePhotos (the account steps are shared).
UcSearchStep(c) ==
  \/ UcSearchQuery(c)
  \/ UcItemLookup(c)
  \/ UcItemDownload(c)
  \/ UcItemUpload(c)
  \/ UcItemSave(c)

\* One step of caller c's use-case invocation.
UcStep(c) == UcResolveStep(c) \/ UcSearchStep(c)

\* ------------------------------------------------- the sequential caller
ResolveArgs == ExtIDs \cup {"zz"}
PageArgs == {-1, 0, 1, 2}
PerPageArgs == {-2, 0, 3, 101}
QueryArgs == {"q", "nothing"}

SeqCallResolve ==
  /\ ~Busy(SeqCaller)
  /\ ncalls < MaxCalls
  /\ \E extID \in ResolveArgs :
       uc' = [uc EXCEPT ![SeqCaller] = CallResolve(uc[SeqCaller], extID)]
  /\ ncalls' = ncalls + 1
  /\ UNCHANGED <<storeImpl, photos, users, blobs, resolved, pipelines, gateVars, queueVars>>

SeqCallSearch ==
  /\ ~Busy(SeqCaller)
  /\ ncalls < MaxCalls
  /\ \E query \in QueryArgs, page \in PageArgs, perPage \in PerPageArgs :
       uc' = [uc EXCEPT ![SeqCaller] = CallSearch(uc[SeqCaller], query, page, perPage)]
  /\ ncalls' = ncalls + 1
  /\ UNCHANGED <<storeImpl, photos, users, blobs, resolved, pipelines, gateVars, queueVars>>

\* ------------------------------------------------------- queue wire format
\* A JSON value of an object member, as encoding/json sees it.
JStr(s) == [t |-> "str", s |-> s, n |-> 0]
JNum(n) == [t |-> "num", s |-> "", n |-> n]
JAbsent == [t |-> "absent", s |-> "", n |-> 0]

\* payloads.PhotoSearchPayload
Payload(query, page, perPage) == [query |-> query, page |-> page, perPage |-> perPage]
ZeroPayload == Payload("", 0, 0)

\* json.Marshal(payload): {"query": ..., "page": ..., "per_page": ...}
Marshal(payload) ==
  [json |-> TRUE, query |-> JStr(payload.query), page |-> JNum(payload.page),
   per_page |-> JNum(payload.perPage)]

\* A body that is not JSON at all, an object with a string where the int goes, and {}.
NotJSON == [json |-> FALSE, query |-> JAbsent, page |-> JAbsent, per_page |-> JAbsent]
BadTypeBody == [json |-> TRUE, query |-> JStr("q"), page |-> JStr("1"), per_page |-> JNum(3)]
EmptyObject == [json |-> TRUE, query |-> JAbsent, page |-> JAbsent, per_page |-> JAbsent]

\* json.Unmarshal(msg.Body, &payload): a syntax error or a member of the wrong JSON
\* type is an error; an absent member leaves the field's zero value.
Unmarshal(body) ==
  IF ~body.json
     \/ body.query.t \notin {"str", "absent"}
     \/ body.page.t \notin {"num", "absent"}
     \/ body.per_page.t \notin {"num", "absent"}
  THEN [err |-> TRUE, payload |-> ZeroPayload]
  ELSE [err |-> FALSE,
        payload |-> Payload(body.query.s, body.page.n, body.per_page.n)]

\* --------------------------------------------------------------- the broker
MsgIDs == 1..(MaxMsgs + NumReq)

IdsOf(q) == {q[i].mid : i \in 1..Len(q)}

\* Fault injection for C35: consuming with auto-ack, the broker forgets a delivery
\* when it hands it over.
AutoAcked == <<>>

\* The deliveries the broker holds unacknowledged for the consumer's channel: those
\* pushed and not yet received by the loop, and the one the loop holds.
HeldByLoop == IF cons.pc \in {"decode", "handling"} /\ cons.held THEN <<cons.msg>> ELSE <<>>

\* basic.publish on the default exchange with the queue's name as routing key.
Enqueue(q, msg) == Append(q, msg)

\* Channel.PublishWithContext of the AMQP client library, which is not part of the
\* repository; the channel is not in confirm mode. What it returns, and when, is
\* taken from the specification's contract for Publish: nil with the message in
\* the queue, or an error with nothing enqueued (sent: which of the two).
PublishWithContext(q, msg, sent) ==
  IF sent THEN [err |-> FALSE, q |-> Enqueue(q, msg)] ELSE [err |-> TRUE, q |-> q]

\* Fault injection for C14: the function fails on a step of its own after the
\* library took the message.
PublishThenFail(q, mid, payload, sent) ==
  [err |-> ~sent, q |-> Enqueue(q, [mid |-> mid, body |-> Marshal(payload)])]

\* Client.PublishPhotoSearchRequest: json.Marshal of the payload (a string and two
\* ints: no error), then one PublishWithContext with the body; the function does
\* nothing after it but log and hand back the library's error, wrapped, or nil.
PublishPhotoSearchRequest(q, mid, payload, sent) ==
  PublishWithContext(q, [mid |-> mid, body |-> Marshal(payload)], sent)

\* ------------------------------------------------------------ HTTP handlers
RawParams == {"", "x", "-1", "0", "2", "101"}

\* The raw page and per_page strings request r may carry: the first request ranges
\* over all of them, the others send one well-formed value.
ParamsOf(r) == IF r = 1 THEN RawParams ELSE {"2"}

\* strconv.Atoi on the raw parameters above.
Atoi(s) ==
  CASE s = "0" -> [err |-> FALSE, n |-> 0]
    [] s = "-1" -> [err |-> FALSE, n |-> -1]
    [] s = "2" -> [err |-> FALSE, n |-> 2]
    [] s = "101" -> [err |-> FALSE, n |-> 101]
    [] OTHER -> [err |-> TRUE, n |-> 0]

\* page, err := strconv.Atoi(pageStr); if err != nil || page <= 0 { page = 1 }
HandlerPage(s) == IF Atoi(s).err \/ Atoi(s).n <= 0 THEN DefaultPage ELSE Atoi(s).n

\* Fault injection for C13: per_page goes out as parsed.
PerPageAsParsed(s) == Atoi(s).n

\* if err != nil || perPage <= 0 || perPage > 100 { perPage = 3 }
HandlerPerPage(s) ==
  IF Atoi(s).err \/ Atoi(s).n <= 0 \/ Atoi(s).n > MaxPerPage THEN DefaultPerPage
  ELSE Atoi(s).n

NewRequest(kind) ==
  [kind |-> kind, pc |-> "start", ctxDone |-> FALSE, resp |-> "none", acq |-> 0, rel |-> 0]

\* Fault injection for C1: a send that never blocks.
AlwaysRoom(lim) == TRUE

\* `case h.uploadLimiter <- struct{}{}` can proceed: the channel's buffer has room.
CanSend(lim) == lim < GateCap

\* Fault injection for C38: a goroutine parked at the select is never woken.
FirstTryOnly(r) == hreq[r].pc = "start"

AtSelect(r) == hreq[r].pc \in {"start", "waiting"}

\* Fault injection for C2: a return that leaves the token in the channel.
NoRelease(lim) == lim

\* defer func() { <-h.uploadLimiter }(): one token is taken out at return.
DeferRelease(lim) == lim - 1

\* The handler returns after the select granted it a slot: response, then the defer.
Finish(req, resp) == [req EXCEPT !.pc = "done", !.resp = resp, !.rel = @ + 1]

\* select, case h.uploadLimiter <- struct{}{}: the slot is taken, the defer registered.
HAcquire(r) ==
  /\ AtSelect(r)
  /\ CanSend(uploadLimiter)
  /\ uploadLimiter' = uploadLimiter + 1
  /\ hreq' = [hreq EXCEPT ![r].pc = "body", ![r].acq = @ + 1]
  /\ UNCHANGED <<engineVars, queueVars>>

\* Fault injection for C18: the cancelled request is answered all the same.
AnswerAnyway(req) == [req EXCEPT !.pc = "done", !.resp = "500"]

\* log.Printf(...); return: the handler ends, nothing is written to w.
Abandon(req) == [req EXCEPT !.pc = "done"]

\* select, case <-r.Context().Done(): return without a response.
HCtxDone(r) ==
  /\ AtSelect(r)
  /\ hreq[r].ctxDone
  /\ hreq' = [hreq EXCEPT ![r] = Abandon(@)]
  /\ UNCHANGED <<uploadLimiter, engineVars, queueVars>>

\* select with no case ready: the goroutine blocks.
HBlock(r) ==
  /\ hreq[r].pc = "start"
  /\ ~CanSend(uploadLimiter)
  /\ ~hreq[r].ctxDone
  /\ hreq' = [hreq EXCEPT ![r].pc = "waiting"]
  /\ UNCHANGED <<uploadLimiter, engineVars, queueVars>>

\* Fault injection for C17: the wait bound on both endpoints.
BoundEverywhere(kind) == TRUE

\* Which handler's select has the case <-time.After(1 * time.Second).
HasWaitBound(kind) == kind = "search"

\* select of SearchAndSavePhotos, case <-time.After(1 * time.Second): 503.
HTimeout(r) ==
  /\ HasWaitBound(hreq[r].kind)
  /\ hreq[r].pc = "waiting"
  /\ hreq' = [hreq EXCEPT ![r].pc = "done", ![r].resp = "503"]
  /\ UNCHANGED <<uploadLimiter, engineVars, queueVars>>

\* The client goes away (or the router's timeout fires) while the request is at the
\* select; later the handler itself no longer reads ctx.Done(), and a cancelled
\* context shows as a failing collaborator call.
ClientCancel(r) ==
  /\ AtSelect(r)
  /\ ~hreq[r].ctxDone
  /\ hreq' = [hreq EXCEPT ![r].ctxDone = TRUE]
  /\ UNCHANGED <<uploadLimiter, engineVars, queueVars>>

HResolveIDs == {"", "a"}

\* GetOrCreatePhotoByUnsplashID after the select: the parameter test, then the call
\* of the use case.
HResolveEnter(r) ==
  /\ hreq[r].kind = "resolve"
  /\ hreq[r].pc = "body"
  /\ \E unsplashID \in HResolveIDs :
       IF unsplashID = ""
       THEN /\ hreq' = [hreq EXCEPT ![r] = Finish(@, "400")]
            /\ uploadLimiter' = DeferRelease(uploadLimiter)
            /\ UNCHANGED uc
       ELSE /\ hreq' = [hreq EXCEPT ![r].pc = "usecase"]
            /\ uc' = [uc EXCEPT ![r] = CallResolve(uc[r], unsplashID)]
            /\ UNCHANGED uploadLimiter
  /\ UNCHANGED <<storeImpl, ncalls, photos, users, blobs, resolved, pipelines, queueVars>>

\* The use case has returned: 500 or 200, and the deferred release; the call's frame
\* is gone.
HResolveReturn(r) ==
  /\ hreq[r].pc = "usecase"
  /\ uc[r].pc = "done"
  /\ hreq' = [hreq EXCEPT ![r] = Finish(@, IF uc[r].err # "nil" THEN "500" ELSE "200")]
  /\ uploadLimiter' = DeferRelease(uploadLimiter)
  /\ uc' = [uc EXCEPT ![r] = IdleCall]
  /\ UNCHANGED <<storeImpl, ncalls, photos, users, blobs, resolved, pipelines, queueVars>>

\* if err != nil { respondWithError(w, 500, ...); return }; respondWithJSON(w, 202, ...)
SearchOutcome(pubErr) == IF pubErr THEN "500" ELSE "202"

\* Where the handler stands when PublishPhotoSearchRequest has returned.
Published(pubErr) == IF pubErr THEN "pub_failed" ELSE "pub_sent"

\* SearchAndSavePhotos after the select: the query test (400 and the deferred
\* release), else the pagination parameters and the publish.
HSearchBody(r) ==
  /\ hreq[r].kind = "search"
  /\ hreq[r].pc = "body"
  /\ \E query \in {"", "q"}, pageStr \in ParamsOf(r), perPageStr \in ParamsOf(r),
        sent \in BOOLEAN :
       LET payload == Payload(query, HandlerPage(pageStr), HandlerPerPage(perPageStr))
           pub == PublishPhotoSearchRequest(ready, MaxMsgs + r, payload, sent)
       IN IF query = ""
          THEN /\ hreq' = [hreq EXCEPT ![r] = Finish(@, "400")]
               /\ uploadLimiter' = DeferRelease(uploadLimiter)
               /\ UNCHANGED ready
          ELSE /\ hreq' = [hreq EXCEPT ![r].pc = Published(pub.err)]
               /\ ready' = pub.q
               /\ UNCHANGED uploadLimiter
  /\ UNCHANGED <<engineVars, inflight, cons, chanOpen, workerCtx, mstat, npub>>

\* Fault injection for C19: the handler runs the ingestion itself, as the lines
\* commented out below the 202 did.
CallsUseCase(call) == CallSearch(call, "q", DefaultPage, DefaultPerPage)

\* The use case as the search handler leaves it: nothing between the publish and the
\* return calls h.photoUseCase (the direct call is commented out).
SearchHandlerUseCase(call) == call

\* PublishPhotoSearchRequest has returned: 500 for its error, else 202, and the
\* deferred release. Until this step the request holds its slot and has no
\* response, while the message, if it went out, is already with the broker.
HSearchReturn(r) ==
  /\ hreq[r].pc \in {"pub_sent", "pub_failed"}
  /\ hreq' = [hreq EXCEPT ![r] = Finish(@, SearchOutcome(hreq[r].pc = "pub_failed"))]
  /\ uploadLimiter' = DeferRelease(uploadLimiter)
  /\ uc' = [uc EXCEPT ![r] = SearchHandlerUseCase(@)]
  /\ UNCHANGED <<storeImpl, ncalls, photos, users, blobs, resolved, pipelines, queueVars>>

\* ------------------------------------------------------- the consumer loop
NoMsg == [mid |-> 0, body |-> NotJSON]

\* cons: the goroutine of StartConsumingPhotoSearchRequests. At "select", msg, hres
\* and acts are those of the delivery it finished last; hres: what the handler
\* returned for it ("none": not invoked); held: the broker still counts the loop's
\* delivery as unacknowledged.
IdleLoop(pc) ==
  [pc |-> pc, msg |-> NoMsg, payload |-> ZeroPayload, hres |-> "none", held |-> FALSE,
   acts |-> <<>>]

NewStat ==
  [invoked |-> FALSE, okd |-> FALSE, failed |-> FALSE, malformed |-> FALSE,
   acked |-> FALSE, dropped |-> FALSE, pending |-> FALSE]

\* msg.Ack(false): an error on a closed channel, otherwise the broker forgets the
\* delivery.
Ack(open) == [kind |-> "ack", ok |-> open]

\* Fault injection for C4: the requeue flag is not honoured.
NackDiscards(open, requeue) == [kind |-> "nack_drop", ok |-> open]

\* msg.Nack(false, requeue): an error on a closed channel; otherwise the broker puts
\* the message back at the head of the queue or discards it.
Nack(open, requeue) == [kind |-> IF requeue THEN "nack_requeue" ELSE "nack_drop", ok |-> open]

\* Fault injection for C3: no `continue` after the reject.
FallThrough == "handling"

\* The requeue flag of the reject after a decode error: msg.Nack(false, false).
RequeueOnDecodeError == FALSE

\* Fault injection for C26: a retry limit of one; a message rejected after an earlier
\* failure is discarded (dead-lettered) instead of requeued.
RetryLimit(q, msg, act, held) ==
  IF act.ok /\ held /\ act.kind = "nack_requeue" /\ ~mstat[msg.mid].failed
  THEN <<msg>> \o q ELSE q

\* What the broker does with the loop's delivery on a terminal action it accepts.
\* The queue is declared without arguments (no dead-letter exchange, no delivery
\* limit), and the loop never looks at the delivery's Redelivered flag.
BrokerApply(q, msg, act, held) ==
  IF act.ok /\ held /\ act.kind = "nack_requeue" THEN <<msg>> \o q ELSE q

\* Where the loop goes after rejecting an undecodable body: `continue`.
AfterReject == "select"

\* Another producer enqueues a body.
EnvBodies == {Marshal(Payload("q", 1, 3)), NotJSON, BadTypeBody, EmptyObject}

EnvPublish ==
  /\ npub < MaxMsgs
  /\ \E body \in EnvBodies :
       ready' = Enqueue(ready, [mid |-> npub + 1, body |-> body])
  /\ npub' = npub + 1
  /\ UNCHANGED <<gateVars, engineVars, inflight, cons, chanOpen, workerCtx, mstat>>

\* The repository's own producer, the search endpoint, enqueues a task: what
\* PublishPhotoSearchRequest sends for a payload with a query and pagination in range.
TaskPublish ==
  /\ npub < MaxMsgs
  /\ ready' = PublishPhotoSearchRequest(ready, npub + 1, Payload("q", 1, 3), TRUE).q
  /\ npub' = npub + 1
  /\ UNCHANGED <<gateVars, engineVars, inflight, cons, chanOpen, workerCtx, mstat>>

\* The broker pushes what is ready to the registered consumer, in queue order (no
\* Qos is set, so without a limit); the library buffers it for the msgs channel.
BrokerPush ==
  /\ chanOpen
  /\ cons.pc # "off"
  /\ ready # <<>>
  /\ inflight' = inflight \o ready
  /\ ready' = <<>>
  /\ UNCHANGED <<gateVars, engineVars, cons, chanOpen, workerCtx, mstat, npub>>

\* Fault injection for C33: the loop takes a delivery only while the gate has room.
ReceiveThroughGate(loop) == loop.pc = "select" /\ uploadLimiter < GateCap

\* Fault injection for C21: deliveries are taken while a handler is still running.
ReceiveWhileHandling(loop) == loop.pc \in {"select", "handling"}

\* The receive is a case of the select at the top of the for loop, which the
\* goroutine reaches only between deliveries.
CanReceive(loop) == loop.pc = "select"

\* select, case msg, ok := <-msgs with ok true.
ConsReceive ==
  /\ CanReceive(cons)
  /\ inflight # <<>>
  /\ cons' = [pc |-> "decode", msg |-> Head(inflight), payload |-> ZeroPayload,
              hres |-> "none", held |-> TRUE, acts |-> <<>>]
  /\ inflight' = Tail(inflight)
  /\ UNCHANGED <<gateVars, engineVars, ready, chanOpen, workerCtx, mstat, npub>>

\* Fault injection for C22: the loop opens a new channel and consumes again.
Reconnect(loop, open) == [loop |-> loop, open |-> TRUE]

\* if !ok { log.Println(...); return }: the goroutine ends, the channel stays as it is.
OnClosed(loop, open) == [loop |-> [loop EXCEPT !.pc = "stopped"], open |-> open]

\* select, case msg, ok := <-msgs with ok false: the channel was closed; return.
ConsClosed ==
  /\ cons.pc = "select"
  /\ ~chanOpen
  /\ inflight = <<>>
  /\ cons' = OnClosed(cons, chanOpen).loop
  /\ chanOpen' = OnClosed(cons, chanOpen).open
  /\ UNCHANGED <<gateVars, engineVars, ready, inflight, workerCtx, mstat, npub>>

\* select, case <-ctx.Done(): return.
ConsCtxDone ==
  /\ cons.pc = "select"
  /\ workerCtx = "cancelled"
  /\ cons' = [cons EXCEPT !.pc = "stopped"]
  /\ UNCHANGED <<gateVars, engineVars, ready, inflight, chanOpen, workerCtx, mstat, npub>>

\* json.Unmarshal of the body; on an error Nack(false, false) and continue.
ConsDecode ==
  /\ cons.pc = "decode"
  /\ LET d == Unmarshal(cons.msg.body)
         act == Nack(chanOpen, RequeueOnDecodeError)
         m == cons.msg.mid
         took == act.ok /\ cons.held
     IN IF d.err
        THEN /\ cons' = [cons EXCEPT !.pc = AfterReject, !.acts = Append(@, act),
                                     !.held = IF act.ok THEN FALSE ELSE @]
             /\ ready' = BrokerApply(ready, cons.msg, act, cons.held)
             /\ mstat' = [mstat EXCEPT ![m].malformed = TRUE,
                                       ![m].dropped = @ \/ (took /\ act.kind = "nack_drop")]
        ELSE /\ cons' = [cons EXCEPT !.pc = "handling", !.payload = d.payload]
             /\ mstat' = [mstat EXCEPT ![m].invoked = TRUE]
             /\ UNCHANGED ready
  /\ UNCHANGED <<gateVars, engineVars, inflight, chanOpen, workerCtx, npub>>

\* handler(ctx, payload) has returned, with an error or without: Nack(false, true) on
\* an error, Ack(false) otherwise, and back to the select.
HandlerReturned(herr) ==
  LET act == IF herr THEN Nack(chanOpen, TRUE) ELSE Ack(chanOpen)
      m == cons.msg.mid
      took == act.ok /\ cons.held
  IN /\ cons' = [cons EXCEPT !.pc = "select", !.acts = Append(@, act),
                             !.hres = IF herr THEN "fail" ELSE "ok",
                             !.held = IF act.ok THEN FALSE ELSE @]
     /\ ready' = BrokerApply(ready, cons.msg, act, cons.held)
     /\ mstat' = [mstat EXCEPT ![m].failed = @ \/ herr, ![m].okd = @ \/ ~herr,
                               ![m].pending = FALSE,
                               ![m].acked = @ \/ (took /\ act.kind = "ack"),
                               ![m].dropped = @ \/ (took /\ act.kind = "nack_drop")]
     /\ UNCHANGED <<gateVars, engineVars, inflight, chanOpen, workerCtx, npub>>

\* The loop with a handler of which only the result is modelled: either one.
ConsHandlerReturn ==
  /\ cons.pc = "handling"
  /\ cons.hres = "none"
  /\ \E herr \in BOOLEAN : HandlerReturned(herr)

\* Fault injection for C25: the handler logs the error and returns nil.
HandlerLogsOnly(call) == FALSE

\* Fault injection for C36: the handler also fails when an item was skipped.
FailsOnSkippedItems(call) ==
  call.err # "nil" \/ \E i \in 1..Len(call.ilog) : call.ilog[i].rec = NoPhoto

\* runWorker's messageHandler: the error of SearchAndSavePhotos, or nil.
messageHandler(call) == call.err # "nil"

\* The loop calls messageHandler, which calls SearchAndSavePhotos with the payload's
\* fields (hres "running": the handler is in the use case).
HandlerCall ==
  /\ cons.pc = "handling"
  /\ cons.hres = "none"
  /\ ncalls < MaxCalls
  /\ uc' = [uc EXCEPT ![SeqCaller] =
            CallSearch(uc[SeqCaller], cons.payload.query, cons.payload.page,
                       cons.payload.perPage)]
  /\ ncalls' = ncalls + 1
  /\ cons' = [cons EXCEPT !.hres = "running"]
  /\ UNCHANGED <<storeImpl, photos, users, blobs, resolved, pipelines, gateVars, ready,
                 inflight, chanOpen, workerCtx, mstat, npub>>

\* SearchAndSavePhotos has returned and messageHandler returns with it.
HandlerDone ==
  /\ cons.pc = "handling"
  /\ cons.hres = "running"
  /\ uc[SeqCaller].pc = "done"
  /\ HandlerReturned(messageHandler(uc[SeqCaller]))

\* runWorker: a signal arrives and cancelWorker() is called.
EnvCancel ==
  /\ cons.pc # "off"
  /\ workerCtx = "live"
  /\ workerCtx' = "cancelled"
  /\ mstat' = IF cons.pc = "handling" THEN [mstat EXCEPT ![cons.msg.mid].pending = TRUE]
              ELSE mstat
  /\ UNCHANGED <<gateVars, engineVars, ready, inflight, cons, chanOpen, npub>>

\* The AMQP channel or connection goes down (Client.Close at exit, or a failure):
\* the broker puts every unacknowledged delivery back on the queue.
EnvChannelClose ==
  /\ cons.pc # "off"
  /\ chanOpen
  /\ chanOpen' = FALSE
  /\ ready' = HeldByLoop \o inflight \o ready
  /\ inflight' = <<>>
  /\ cons' = [cons EXCEPT !.held = FALSE]
  /\ UNCHANGED <<gateVars, engineVars, workerCtx, mstat, npub>>

\* runWorker after cancelWorker(): time.Sleep(2 * time.Second), return; main's
\* deferred rbmqClient.Close() runs and the process ends. Nothing waits for the
\* consumer goroutine: it ends with the process wherever it is, and the broker
\* requeues what was unacknowledged.
WorkerExit ==
  /\ workerCtx = "cancelled"
  /\ workerCtx' = "exited"
  /\ cons' = [cons EXCEPT !.pc = IF @ = "stopped" THEN "stopped" ELSE "killed",
                          !.held = FALSE]
  /\ chanOpen' = FALSE
  /\ ready' = IF chanOpen THEN HeldByLoop \o inflight \o ready ELSE ready
  /\ inflight' = IF chanOpen THEN <<>> ELSE inflight
  /\ UNCHANGED <<gateVars, engineVars, mstat, npub>>

\* ---------------------------------------------------------- specifications
InitStores ==
  /\ photos = {}
  /\ users = {}
  /\ blobs = {}
  /\ resolved = {}
  /\ pipelines = [id \in ResolveArgs |-> 0]
  /\ storeImpl \in StoreImpls
  /\ ncalls = 0
  /\ uc = [c \in Callers |-> IdleCall]

InitBroker(pc) ==
  /\ ready = <<>>
  /\ inflight = <<>>
  /\ cons = IdleLoop(pc)
  /\ chanOpen = TRUE
  /\ workerCtx = "live"
  /\ mstat = [m \in MsgIDs |-> NewStat]
  /\ npub = 0

\* The use-case engine under one sequential caller.
InitEngine ==
  /\ InitStores
  /\ InitBroker("off")
  /\ uploadLimiter = 0
  /\ hreq = [r \in Reqs |-> NewRequest("resolve")]

NextEngine ==
  \/ SeqCallResolve
  \/ SeqCallSearch
  \/ UcStep(SeqCaller)

SpecEngine == InitEngine /\ [][NextEngine]_vars

\* The engine beside a user of the FileStorage port who deletes objects: the one way
\* the bucket loses a key. No part of the program is such a user.
SpecBlobStore == InitEngine /\ [][NextEngine \/ DeleteFile]_vars

\* The use-case engine under concurrent callers: every request handler 1..NumReq is
\* inside GetOrCreatePhotoByUnsplashID while the worker (caller 0) runs one batch;
\* the statements of the callers interleave freely. All of them ask for the same
\* external id, which is also the batch's item.
RaceArgs == {"a"}

RaceCallResolve(c) ==
  /\ c \in Reqs
  /\ uc[c].pc = "idle"
  /\ \E extID \in RaceArgs : uc' = [uc EXCEPT ![c] = CallResolve(uc[c], extID)]
  /\ UNCHANGED <<storeImpl, ncalls, photos, users, blobs, resolved, pipelines, gateVars,
                 queueVars>>

RaceCallSearch ==
  /\ uc[SeqCaller].pc = "idle"
  /\ uc' = [uc EXCEPT ![SeqCaller] = CallSearch(uc[SeqCaller], "q", 1, 1)]
  /\ UNCHANGED <<storeImpl, ncalls, photos, users, blobs, resolved, pipelines, gateVars,
                 queueVars>>

InitRace == InitEngine

NextRace ==
  \/ \E c \in Reqs : RaceCallResolve(c)
  \/ RaceCallSearch
  \/ \E c \in Callers : UcStep(c)

SpecRace == InitRace /\ [][NextRace]_vars

\* The PhotoStorage port on its own: a caller saves a record and reads it back under
\* its external id, MaxCalls times in sequence.
StoreAccount == 7

StoreInputs ==
  {[id |-> id, unsplashID |-> extID, userID |-> owner,
    s3URL |-> UploadURL(ResolveS3Key(extID)), originalURL |-> <<"urls.full", extID>>,
    meta |-> [mapUnsplashPhotoToDomain(extID, id).meta EXCEPT !["uploaded_at"] = IF dated THEN @ ELSE <<>>]] :
     id \in {NilUUID, 5}, extID \in {"a", "b"}, owner \in {NilUUID, StoreAccount},
     dated \in BOOLEAN}

\* The caller has a record and calls SavePhoto next.
StCall ==
  /\ ~Busy(SeqCaller)
  /\ ncalls < MaxCalls
  /\ \E p \in StoreInputs :
       uc' = [uc EXCEPT ![SeqCaller] =
                [IdleCall EXCEPT !.op = "roundtrip", !.pc = "st_save", !.id = p.unsplashID,
                                 !.cur = p, !.serial = uc[SeqCaller].serial + 1]]
  /\ ncalls' = ncalls + 1
  /\ UNCHANGED <<storeImpl, photos, users, blobs, resolved, pipelines, gateVars, queueVars>>

\* photoStorage.SavePhoto(ctx, &photo): cur is the record as the caller holds it after
\* the call.
StSave ==
  /\ uc[SeqCaller].pc = "st_save"
  /\ \E dbErr \in {"none", "account", "insert"}, now \in NowNanos :
       LET call == [uc[SeqCaller] EXCEPT !.ops = @ \cup {"save"}]
           r == SavePhoto(storeImpl, photos, users, call.cur,
                          NewUUID(SeqCaller, call.serial, 7),
                          NewUUID(SeqCaller, call.serial, 8), now, dbErr)
       IN /\ uc' = [uc EXCEPT ![SeqCaller] =
                 IF r.err THEN [call EXCEPT !.pc = "done", !.err = "PersistFailed",
                                            !.cur = r.photo]
                 ELSE [call EXCEPT !.pc = "st_get", !.cur = r.photo]]
          /\ photos' = r.photos
          /\ users' = r.users
  /\ UNCHANGED <<storeImpl, ncalls, blobs, resolved, pipelines, gateVars, queueVars>>

\* photoStorage.GetPhotosByUnsplashIDFromDB(ctx, photo.UnsplashID): out is what it
\* returned.
StGet ==
  /\ uc[SeqCaller].pc = "st_get"
  /\ \E dbErr \in BOOLEAN :
       LET call == [uc[SeqCaller] EXCEPT !.ops = @ \cup {"get"}]
           photo == GetPhotosByUnsplashIDFromDB(photos, call.id)
       IN uc' = [uc EXCEPT ![SeqCaller] =
              IF dbErr THEN [call EXCEPT !.pc = "done", !.err = "DedupLookupFailed"]
              ELSE [call EXCEPT !.pc = "done", !.err = "nil", !.out = <<photo>>]]
  /\ UNCHANGED <<storeImpl, ncalls, photos, users, blobs, resolved, pipelines, gateVars,
                 queueVars>>

InitStore == InitEngine

NextStore ==
  \/ StCall
  \/ StSave
  \/ StGet

SpecStore == InitStore /\ [][NextStore]_vars

\* The HTTP server: NumReq requests, each to one of the two guarded endpoints, over
\* a gate of capacity GateCap; accepted search tasks pile up in the queue.
InitGate ==
  /\ InitStores
  /\ InitBroker("off")
  /\ uploadLimiter = 0
  /\ hreq \in [Reqs -> {NewRequest("resolve"), NewRequest("search")}]

NextGate ==
  \E r \in Reqs :
    \/ HAcquire(r)
    \/ HCtxDone(r)
    \/ HBlock(r)
    \/ HTimeout(r)
    \/ ClientCancel(r)
    \/ HResolveEnter(r)
    \/ UcResolveStep(r)
    \/ HResolveReturn(r)
    \/ HSearchBody(r)
    \/ HSearchReturn(r)

SpecGate == InitGate /\ [][NextGate]_vars

\* The requests of the fair server: any mix of the two endpoints. Requests differ in
\* nothing but their endpoint, so the resolve requests are numbered first.
InitGateFair ==
  /\ InitGate
  /\ \A r, s \in Reqs : (r < s /\ hreq[s].kind = "resolve") => hreq[r].kind = "resolve"

\* The HTTP server under fair scheduling: a goroutine whose select has a ready case
\* (room in the channel, a done context, the search endpoint's timer) proceeds, and
\* a handler past the select runs its body to the return. Clients need not cancel.
SpecGateFair ==
  /\ InitGateFair
  /\ [][NextGate]_vars
  /\ \A r \in Reqs :
       /\ WF_vars(HAcquire(r) \/ HCtxDone(r) \/ HBlock(r) \/ HTimeout(r))
       /\ WF_vars(HResolveEnter(r) \/ UcResolveStep(r) \/ HResolveReturn(r)
                    \/ HSearchBody(r) \/ HSearchReturn(r))

\* The search endpoint and the worker together: every request is a search, the
\* accepted tasks go through the broker to the consume loop, whose handler (the batch
\* ingestion) succeeds or fails.
InitPipe ==
  /\ InitStores
  /\ InitBroker("select")
  /\ uploadLimiter = 0
  /\ hreq = [r \in Reqs |-> NewRequest("search")]

NextPipe ==
  \/ \E r \in Reqs :
        \/ HAcquire(r)
        \/ HCtxDone(r)
        \/ HBlock(r)
        \/ HTimeout(r)
        \/ ClientCancel(r)
        \/ HSearchBody(r)
        \/ HSearchReturn(r)
  \/ BrokerPush
  \/ ConsReceive
  \/ ConsDecode
  \/ ConsHandlerReturn

SpecPipe == InitPipe /\ [][NextPipe]_vars

\* The worker's consume loop over the broker, with other producers publishing, the
\* shutdown signal and the loss of the channel as the environment.
InitQueue ==
  /\ InitStores
  /\ InitBroker("select")
  /\ uploadLimiter = 0
  /\ hreq = [r \in Reqs |-> NewRequest("search")]

NextQueue ==
  \/ EnvPublish
  \/ BrokerPush
  \/ ConsReceive
  \/ ConsClosed
  \/ ConsCtxDone
  \/ ConsDecode
  \/ ConsHandlerReturn
  \/ EnvCancel
  \/ EnvChannelClose

SpecQueue == InitQueue /\ [][NextQueue]_vars

\* The worker process from start to exit: the consume loop and runWorker's shutdown.
NextWorker ==
  \/ NextQueue
  \/ WorkerExit

SpecWorker == InitQueue /\ [][NextWorker]_vars

\* A statement of the use case running in the worker's handler goroutine: it runs
\* only while the worker process does; once runWorker has returned and the process
\* has ended, the call makes no further step.
HandlerStep ==
  /\ workerCtx # "exited"
  /\ \/ UcSearchStep(SeqCaller)
     \/ UcAccountSelect(SeqCaller)
     \/ UcAccountInsert(SeqCaller)

\* The worker with the use case behind its handler, fed with the search endpoint's
\* tasks: every delivery runs SearchAndSavePhotos, and the loop settles the message
\* when the handler returns. The shutdown signal, the loss of the channel and the
\* end of the worker process can come at any point of a run.
NextTask ==
  \/ TaskPublish
  \/ BrokerPush
  \/ ConsReceive
  \/ ConsClosed
  \/ ConsCtxDone
  \/ ConsDecode
  \/ HandlerCall
  \/ HandlerStep
  \/ HandlerDone
  \/ EnvCancel
  \/ EnvChannelClose
  \/ WorkerExit

SpecTask == InitQueue /\ [][NextTask]_vars

\* The same under a fair broker and a loop whose goroutine is scheduled and whose
\* handler returns.
SpecQueueFair ==
  /\ SpecQueue
  /\ WF_vars(BrokerPush)
  /\ WF_vars(ConsReceive)
  /\ WF_vars(ConsDecode)
  /\ WF_vars(ConsHandlerReturn)

\* ------------------------------------------------- claims about the engine
\* The call the sequential caller has made last.
SeqCall == uc[SeqCaller]

\* C7: a resolve call for an external id that PhotoStore already holds makes no
\* collaborator call but the dedup lookup, returns the stored record (or the lookup's
\* error) and leaves PhotoStore and BlobStore as they were; so of two calls in sequence
\* for an id absent at first, at most one runs the pipeline to its Save.
C7_IdempotentResolve ==
  /\ [](SeqCall.op = "resolve" =>
          /\ SeqCall.prior => SeqCall.known
          /\ SeqCall.known => /\ SeqCall.pc \in {"r_lookup", "done"}
                              /\ SeqCall.ops \subseteq {"get"}
          /\ (SeqCall.known /\ SeqCall.pc = "done") =>
               /\ SeqCall.ops = {"get"}
               /\ \/ /\ SeqCall.err = "nil"
                     /\ SeqCall.hit = "found"
                     /\ SeqCall.cur \in photos
                     /\ SeqCall.cur.unsplashID = SeqCall.id
                  \/ /\ SeqCall.err = "DedupLookupFailed"
                     /\ SeqCall.hit = "error"
          /\ \A id \in ResolveArgs : pipelines[id] <= 1)
  /\ [][(SeqCall.op = "resolve" /\ SeqCall.known /\ Busy(SeqCaller)) =>
          (photos' = photos /\ blobs' = blobs /\ users' = users)]_vars

\* C7 witness: the second of two calls for the same id has returned the row the
\* first one persisted.
C7_Witness ==
  /\ SeqCall.op = "resolve"
  /\ SeqCall.pc = "done"
  /\ SeqCall.serial = 2
  /\ SeqCall.prior
  /\ SeqCall.hit = "found"
  /\ pipelines[SeqCall.id] = 1
  /\ SeqCall.cur \in photos

\* The entries of an item log that put a record in the output, in order.
RECURSIVE KeptRecs(_)
KeptRecs(ilog) ==
  IF ilog = <<>> THEN <<>>
  ELSE IF Head(ilog).st \in {"existing", "saved"}
       THEN <<Head(ilog).rec>> \o KeptRecs(Tail(ilog))
       ELSE KeptRecs(Tail(ilog))

\* C8: for an item of a search result whose external id PhotoStore already holds,
\* the batch makes no call but the dedup lookup (no download, upload or Save) and,
\* unless that lookup fails, puts the stored row in its output.
C8_BatchDedup ==
  SeqCall.op = "search" =>
    \A i \in 1..Len(SeqCall.ilog) :
      LET e == SeqCall.ilog[i]
      IN /\ e.known => /\ e.ops = {"get"}
                       /\ e.st \in {"existing", "skip_lookup"}
         /\ e.st = "existing" =>
              /\ e.known
              /\ e.rec \in photos
              /\ e.rec.unsplashID = SeqCall.items[i].unsplashID
              /\ \E k \in 1..Len(SeqCall.out) : SeqCall.out[k] = e.rec

\* C8 witness: a finished batch whose first item was already stored and came back
\* as the stored row.
C8_Witness ==
  /\ SeqCall.op = "search"
  /\ SeqCall.pc = "done"
  /\ Len(SeqCall.ilog) >= 2
  /\ SeqCall.ilog[1].st = "existing"
  /\ SeqCall.ilog[2].st = "saved"
  /\ SeqCall.out[1] \in photos
  /\ SeqCall.out[1].id # SeqCall.items[1].id

\* C9: once the item loop is entered the batch returns no error; every item is
\* processed whatever happened to the items before it; the output is the records of
\* the items that were found stored or were persisted, in the order of the source
\* result, and never longer than the source result.
C9_PartialFailure ==
  SeqCall.op = "search" =>
    /\ Len(SeqCall.ilog) <= Len(SeqCall.items)
    /\ SeqCall.out = KeptRecs(SeqCall.ilog)
    /\ Len(SeqCall.out) <= Len(SeqCall.items)
    /\ \A i \in 1..Len(SeqCall.ilog) :
         SeqCall.ilog[i].rec # NoPhoto =>
           SeqCall.ilog[i].rec.unsplashID = SeqCall.items[i].unsplashID
    /\ (SeqCall.pc = "done" /\ SeqCall.err = "nil") => Len(SeqCall.ilog) = Len(SeqCall.items)
    /\ (SeqCall.pc = "done" /\ SeqCall.err # "nil") =>
         /\ SeqCall.ilog = <<>>
         /\ SeqCall.err \in {"SourceFetchFailed", "AccountResolutionFailed"}
    /\ SeqCall.pc \in {"s_item", "s_download", "s_upload", "s_save"} =>
         Len(SeqCall.ilog) < Len(SeqCall.items)

\* C9 witness: of three items the second failed at the upload; the batch returned
\* items one and three and no error.
C9_Witness ==
  /\ SeqCall.op = "search"
  /\ SeqCall.pc = "done"
  /\ SeqCall.err = "nil"
  /\ Len(SeqCall.items) = 3
  /\ Len(SeqCall.ilog) = 3
  /\ SeqCall.ilog[1].st = "saved"
  /\ SeqCall.ilog[2].st = "skip_upload"
  /\ SeqCall.ilog[3].st = "saved"
  /\ Len(SeqCall.out) = 2
  /\ SeqCall.out[2].unsplashID = SeqCall.items[3].unsplashID

\* C10: the search the engine sends to PhotoSource carries page 1 for a page <= 0,
\* perPage 3 for a perPage <= 0 and a positive value as given; the items worked on
\* are those that search returns.
C10_Normalisation ==
  (SeqCall.op = "search" /\ SeqCall.pc # "s_search") =>
    LET pg == IF SeqCall.page <= 0 THEN 1 ELSE SeqCall.page
        pp == IF SeqCall.perPage <= 0 THEN 3 ELSE SeqCall.perPage
        ids == SearchPhotosFromExternal(SeqCall.query, pg, pp)
    IN /\ SeqCall.sargs = <<SeqCall.query, pg, pp>>
       /\ SeqCall.items # <<>> =>
            /\ Len(SeqCall.items) = Len(ids)
            /\ \A k \in 1..Len(ids) : SeqCall.items[k].unsplashID = ids[k]
       /\ (SeqCall.pc = "done" /\ SeqCall.err = "nil" /\ SeqCall.items = <<>>) => ids = <<>>

\* C10 witness: a call with page 0 and perPage 101 has searched page 1 of size 101
\* and returned all four records of the catalog.
C10_Witness ==
  /\ SeqCall.op = "search"
  /\ SeqCall.pc = "done"
  /\ SeqCall.page = 0
  /\ SeqCall.perPage = 101
  /\ SeqCall.sargs = <<"q", 1, 101>>
  /\ Len(SeqCall.out) = 4

\* --------------------------------------------------- claims about the gate
\* The requests executing the guarded body of their handler.
Executing ==
  {r \in Reqs : hreq[r].pc \in {"body", "usecase", "pub_sent", "pub_failed"}}

\* The requests that hold a slot: granted one and not yet released it.
Holding == {r \in Reqs : hreq[r].acq = 1 /\ hreq[r].rel = 0}

\* C1: at most GateCap requests execute the guarded body of either handler at once;
\* every other request is at the select (waiting) or has ended (timed out,
\* cancelled, answered).
C1_GateBound ==
  /\ Cardinality(Executing) <= GateCap
  /\ uploadLimiter \in 0..GateCap
  /\ \A r \in Reqs \ Executing : hreq[r].pc \in {"start", "waiting", "done"}

\* C1 witness: the gate is full and a further request is blocked at the select.
C1_Witness ==
  /\ Cardinality(Executing) = GateCap
  /\ \E r \in Reqs : hreq[r].pc = "waiting"

\* C2: a request granted a slot releases it exactly once on each exit path (400, 500,
\* 200, 202); a request that was not granted one (cancelled, 503) releases none; the
\* tokens in the gate are exactly the requests still executing.
C2_ReleaseOnce ==
  /\ \A r \in Reqs :
       /\ hreq[r].acq \in {0, 1}
       /\ hreq[r].rel \in 0..hreq[r].acq
       /\ hreq[r].pc \in {"start", "waiting"} => hreq[r].acq = 0
       /\ r \in Executing => (hreq[r].acq = 1 /\ hreq[r].rel = 0)
       /\ hreq[r].pc = "done" => hreq[r].rel = hreq[r].acq
       /\ hreq[r].resp \in {"400", "500", "200", "202"} =>
            (hreq[r].acq = 1 /\ hreq[r].rel = 1)
       /\ (hreq[r].pc = "done" /\ hreq[r].resp \in {"none", "503"}) =>
            (hreq[r].acq = 0 /\ hreq[r].rel = 0)
  /\ Holding = Executing
  /\ uploadLimiter = Cardinality(Executing)

\* C2 witness: one request ended with 500 after its slot was released, another was
\* turned away with 503 without ever holding one, and the gate is empty again.
C2_Witness ==
  /\ \E r \in Reqs : hreq[r].resp = "500" /\ hreq[r].rel = 1
  /\ \E r \in Reqs : hreq[r].resp = "503" /\ hreq[r].rel = 0
  /\ uploadLimiter = 0

\* -------------------------------------------------- claims about the queue
\* The messages the broker holds, ready or delivered and unacknowledged.
InBroker == IdsOf(ready) \cup IdsOf(inflight) \cup IdsOf(HeldByLoop)

\* The loop has finished a delivery and is not working on another.
Finished == cons.pc \in {"select", "stopped"} /\ cons.msg # NoMsg

\* The loop is working on message m.
Working(m) == cons.pc \in {"decode", "handling"} /\ cons.msg.mid = m

\* C3: the loop issues exactly one terminal action per delivery it receives: a
\* reject without requeue for an undecodable body (handler not invoked), an
\* acknowledgement after a handler success, a reject with requeue after a handler
\* failure; none while it is still working on the delivery.
C3_OneTerminalAction ==
  /\ Len(cons.acts) <= 1
  /\ cons.pc \in {"decode", "handling"} => cons.acts = <<>>
  /\ Finished =>
       /\ Len(cons.acts) = 1
       /\ Unmarshal(cons.msg.body).err <=> cons.hres = "none"
       /\ cons.hres = "none" <=> cons.acts[1].kind = "nack_drop"
       /\ cons.hres = "ok" <=> cons.acts[1].kind = "ack"
       /\ cons.hres = "fail" <=> cons.acts[1].kind = "nack_requeue"

\* C3 witness: after an undecodable first message was rejected without requeue, the
\* loop has acknowledged the second.
C3_Witness ==
  /\ Finished
  /\ cons.msg.mid = 2
  /\ cons.acts = <<Ack(TRUE)>>
  /\ mstat[1].malformed
  /\ mstat[1].dropped

\* C4: after a handler failure the loop rejects with requeue and the message stays
\* with the broker; while the channel stays open and the worker is not cancelled,
\* the message reaches the handler again.
C4_FailureRedelivered ==
  /\ [](\A m \in MsgIDs :
          /\ (Finished /\ cons.msg.mid = m /\ cons.hres = "fail") =>
               (cons.acts = <<Nack(cons.acts[1].ok, TRUE)>> /\ m \in InBroker)
          /\ (mstat[m].failed /\ ~mstat[m].acked) => m \in InBroker)
  /\ \A m \in MsgIDs :
       (cons.pc = "select" /\ cons.msg.mid = m /\ cons.hres = "fail")
         ~> \/ cons.pc = "handling" /\ cons.msg.mid = m
            \/ ~chanOpen
            \/ workerCtx = "cancelled"

\* C4 witness: a message whose handler failed earlier is with the handler again, on
\* an open channel and a live worker.
C4_Witness ==
  /\ cons.pc = "handling"
  /\ mstat[cons.msg.mid].failed
  /\ chanOpen
  /\ workerCtx = "live"

\* C5 as stated: after a handler success the message is gone from the queue.
C5_AsStated ==
  (Finished /\ cons.hres = "ok") => cons.msg.mid \notin InBroker

\* C5, what the code does: after a handler success the loop calls Ack and nothing
\* else. An Ack the broker gets removes the message for good: it reaches no handler
\* again. An Ack on a channel lost while the handler ran returns an error, which the
\* loop only logs: the message was never acknowledged and is back in the queue,
\* ready for the next consumer.
C5_AckedNeverRedelivered ==
  /\ (Finished /\ cons.hres = "ok") =>
       /\ cons.acts = <<Ack(cons.acts[1].ok)>>
       /\ cons.acts[1].ok => (mstat[cons.msg.mid].acked /\ cons.msg.mid \notin InBroker)
       /\ ~cons.acts[1].ok =>
            /\ ~chanOpen
            /\ ~mstat[cons.msg.mid].acked
            /\ cons.msg.mid \in IdsOf(ready)
  /\ \A m \in MsgIDs :
       mstat[m].acked => (mstat[m].okd /\ m \notin InBroker /\ ~Working(m))

\* C5 witness: the handler returned success for message 1 after the channel was
\* lost; the Ack failed and the message is at the head of the queue, ahead of
\* message 2, unacknowledged.
C5_Witness ==
  /\ Finished /\ cons.hres = "ok" /\ cons.msg.mid = 1
  /\ cons.acts = <<Ack(FALSE)>>
  /\ mstat[1].okd /\ ~mstat[1].acked
  /\ Len(ready) = 2 /\ ready[1].mid = 1

\* C6 as stated: an undecodable message is discarded and never delivered again.
C6_AsStated ==
  \A m \in MsgIDs : mstat[m].malformed => (m \notin InBroker /\ ~Working(m))

\* C6, what the code does: for an undecodable body the handler is not invoked, the
\* loop rejects without requeue and goes back to its select. A reject the broker
\* gets discards the message, which is not delivered again. A reject on a channel
\* lost since the delivery returns an error, which the loop only logs: the
\* undecodable message was not discarded and is back in the queue, ready for the
\* next consumer.
C6_MalformedContained ==
  /\ \A m \in MsgIDs :
       /\ mstat[m].malformed => ~mstat[m].invoked
       /\ mstat[m].dropped => (mstat[m].malformed /\ m \notin InBroker /\ ~Working(m))
  /\ (Finished /\ Unmarshal(cons.msg.body).err) =>
       /\ cons.hres = "none"
       /\ cons.acts = <<Nack(cons.acts[1].ok, FALSE)>>
       /\ cons.acts[1].ok => (mstat[cons.msg.mid].dropped /\ cons.msg.mid \notin InBroker)
       /\ ~cons.acts[1].ok =>
            /\ ~chanOpen
            /\ ~mstat[cons.msg.mid].dropped
            /\ cons.msg.mid \in IdsOf(ready)
  /\ (cons.hres = "none" /\ cons.acts # <<>>) => cons.pc \in {"select", "stopped"}

\* C6 witness: message 1, undecodable, was delivered and the channel was lost before
\* the loop decoded it; the reject failed and the message is at the head of the
\* queue, ahead of message 2, neither discarded nor handled.
C6_Witness ==
  /\ cons.msg.mid = 1 /\ cons.hres = "none"
  /\ cons.acts = <<Nack(FALSE, FALSE)>>
  /\ mstat[1].malformed /\ ~mstat[1].dropped /\ ~mstat[1].invoked
  /\ Len(ready) = 2 /\ ready[1].mid = 1

\* ------------------------------------------------------------------------
\* C11: in every reachable state, also while several resolve calls and the worker's
\* batch ingest the same external ID concurrently, the photos table holds at most
\* one row per external ID.
C11_UniqueExternalID ==
  \A extID \in ExtIDs \cup {"zz"} : Cardinality(RowsOf(photos, extID)) <= 1

\* Two concurrent callers both missed the lookup of "a" and both ran Save for it:
\* one row was written and the other caller's Save came after it.
C11_Witness ==
  /\ Cardinality(RowsOf(photos, "a")) = 1
  /\ \E c, d \in Callers :
       /\ c # d
       /\ uc[c].op = "resolve" /\ uc[c].id = "a" /\ uc[c].pc = "done"
       /\ "save" \in uc[c].ops /\ uc[c].err = "nil"
       /\ uc[d].op = "resolve" /\ uc[d].id = "a" /\ uc[d].pc = "done"
       /\ "save" \in uc[d].ops /\ uc[d].err = "PersistFailed"

\* C12: in every reachable state there is at most one account row with the system
\* username, also when several callers find none and insert concurrently.
C12_OneSystemAccount == Cardinality(users) <= 1

\* Two concurrent callers both saw no account and both ran the INSERT: one row exists,
\* one caller got it, the other got the failure.
C12_Witness ==
  /\ Cardinality(users) = 1
  /\ \E c, d \in Callers :
       /\ c # d
       /\ uc[c].sysUser \in users
       /\ uc[d].pc = "done" /\ uc[d].err = "AccountResolutionFailed"
       /\ uc[d].op = "resolve" /\ "upload" \in uc[d].ops /\ "account" \in uc[d].ops
       /\ uc[c].op = "resolve" /\ "account" \in uc[c].ops
       /\ uc[c].sysUser = NewUUID(c, uc[c].serial, 9)

\* ------------------------------------------------------------------------
\* The tasks the search endpoint has published that the broker still holds.
PublishedTasks ==
  LET held == ready \o inflight \o HeldByLoop
  IN {held[i] : i \in {j \in 1..Len(held) : held[j].mid > MaxMsgs}}

\* C13: every task the search endpoint publishes has page >= 1 and 0 < perPage <= 100,
\* whatever the request's page and per_page parameters were.
C13_PublishedInRange ==
  \A m \in PublishedTasks :
    LET d == Unmarshal(m.body)
    IN /\ ~d.err
       /\ d.payload.page >= 1
       /\ d.payload.perPage > 0
       /\ d.payload.perPage <= MaxPerPage

\* A published task carries both defaults; no request parameter of the model spells
\* 1 or 3, so both values were put in by the handler.
C13_Witness ==
  \E m \in PublishedTasks :
    /\ Unmarshal(m.body).payload.page = DefaultPage
    /\ Unmarshal(m.body).payload.perPage = DefaultPerPage
    /\ hreq[m.mid - MaxMsgs].resp = "202"

\* ------------------------------------------------------------------------
\* The task of request r (message MaxMsgs + r) reached the broker: it is queued,
\* delivered, or the loop has worked on it.
WasPublished(r) ==
  \/ (MaxMsgs + r) \in InBroker
  \/ mstat[MaxMsgs + r] # NewStat
  \/ cons.msg.mid = MaxMsgs + r

\* C14: while a request stands at a publish that returned an error, and after it was
\* answered 500, its task is not in the queue and has not reached the consumer; a
\* request whose task did not reach the broker is never answered 202; and the step
\* that follows a failed publish writes 500 and puts nothing in the queue.
C14_FailedPublishNotEnqueued ==
  /\ [](\A r \in Reqs :
          /\ hreq[r].pc = "pub_failed" => ~WasPublished(r)
          /\ hreq[r].resp = "500" => ~WasPublished(r)
          /\ ~WasPublished(r) => hreq[r].resp # "202")
  /\ [][\A r \in Reqs :
          (hreq[r].pc = "pub_failed" /\ hreq'[r].pc # "pub_failed") =>
             /\ hreq'[r].pc = "done" /\ hreq'[r].resp = "500"
             /\ ready' = ready /\ inflight' = inflight]_vars

\* One request's publish failed (500, nothing queued for it) while the other's task
\* went through the broker to the worker's handler.
C14_Witness ==
  \E r, q \in Reqs :
    /\ hreq[r].resp = "500" /\ ~WasPublished(r)
    /\ hreq[q].resp = "202" /\ mstat[MaxMsgs + q].invoked
    /\ cons.pc = "select"

\* ------------------------------------------------------------------------
\* C15: every row either engine operation writes carries the non-empty URL of an
\* upload made for its external id and the system account as owner; Save is reached
\* only after the upload, and a call that reports a fresh photo has its row stored.
C15_RowsAreComplete ==
  /\ \A p \in photos :
       /\ p.s3URL # <<>>
       /\ p.s3URL = UploadURL(ResolveS3Key(p.unsplashID))
       /\ ResolveS3Key(p.unsplashID) \in blobs
       /\ p.userID # NilUUID
       /\ p.userID \in users
  /\ \A c \in Callers :
       /\ uc[c].pc \in {"r_save", "s_save"} =>
            /\ "upload" \in uc[c].ops
            /\ uc[c].cur.s3URL # <<>>
       /\ (uc[c].op = "resolve" /\ uc[c].pc = "done" /\ uc[c].err = "nil") =>
            /\ uc[c].cur.s3URL # <<>>
            /\ \E p \in RowsOf(photos, uc[c].id) : p.s3URL # <<>>
       /\ \A i \in 1..Len(uc[c].out) : uc[c].out[i].s3URL # <<>>

\* A resolve call wrote the row of "a" after its upload; the batch that followed
\* found that row and wrote the row of "b" after its own upload.
C15_Witness ==
  /\ SeqCall.op = "search" /\ SeqCall.pc = "done" /\ SeqCall.serial = 2
  /\ "a" \in resolved
  /\ Len(SeqCall.ilog) >= 2
  /\ SeqCall.ilog[1].st = "existing"
  /\ SeqCall.ilog[2].st = "saved"
  /\ SeqCall.ilog[2].ops = {"get", "download", "upload", "save"}
  /\ SeqCall.ilog[1].rec \in photos
  /\ SeqCall.ilog[2].rec \in photos

\* ------------------------------------------------------------------------
\* The consumer goroutine is gone: it returned, or the process ended under it.
LoopEnded == cons.pc \in {"stopped", "killed"}

\* C16 as stated (safety part): when the loop is gone, no handler invocation that
\* was in progress at the cancellation is left without having returned and received
\* its terminal action; and a loop that has observed the cancellation receives
\* nothing more and invokes the handler no more.
C16_AsStated ==
  /\ [](LoopEnded => \A m \in MsgIDs : ~mstat[m].pending)
  /\ [][cons.pc = "stopped" => (cons' = cons /\ mstat' = mstat)]_vars

\* C16, what the code guarantees: the cancellation does not interrupt the loop; an
\* invocation in progress at the cancellation that returns gets exactly one terminal
\* action; and after the loop has returned it receives nothing and invokes nothing.
C16_NoPullAfterObserved ==
  /\ [](cons.pc = "stopped" => \A m \in MsgIDs : ~mstat[m].pending)
  /\ [](\A m \in MsgIDs : mstat[m].pending => (cons.msg.mid = m /\ cons.acts = <<>>))
  /\ [][workerCtx' # workerCtx /\ workerCtx = "live" => cons' = cons]_vars
  /\ [][cons.pc = "stopped" => (cons' = cons /\ mstat' = mstat)]_vars

\* The process ended while the invocation that was in progress at the cancellation
\* had not returned: the delivery got no terminal action and is back in the queue.
C16_Witness ==
  /\ cons.pc = "killed"
  /\ workerCtx = "exited"
  /\ mstat[1].pending
  /\ cons.msg.mid = 1
  /\ cons.acts = <<>>
  /\ 1 \in IdsOf(ready)

\* ------------------------------------------------------------------------
\* C17: a search request that gets no slot within the wait bound ends with 503,
\* having published nothing and holding no slot; a resolve request has no wait
\* bound and ends only after it was granted a slot or after it was cancelled.
C17_OverloadOnlyOnSearch ==
  /\ [](\A r \in Reqs :
          /\ hreq[r].resp = "503" =>
               /\ hreq[r].kind = "search"
               /\ hreq[r].pc = "done"
               /\ hreq[r].acq = 0
               /\ r \notin Holding
               /\ (MaxMsgs + r) \notin IdsOf(ready)
          /\ (hreq[r].kind = "resolve" /\ hreq[r].pc = "done") =>
               \/ hreq[r].acq = 1 /\ hreq[r].resp \in {"400", "500", "200"}
               \/ hreq[r].acq = 0 /\ hreq[r].resp = "none" /\ hreq[r].ctxDone)
  /\ [][\A r \in Reqs :
          (hreq[r].resp # "503" /\ hreq'[r].resp = "503") =>
            /\ hreq[r].pc = "waiting"
            /\ uploadLimiter' = uploadLimiter
            /\ ready' = ready]_vars

\* A search request was turned away with 503 while a resolve request, which had
\* waited for its slot, is inside the use case.
C17_Witness ==
  \E r, q \in Reqs :
    /\ hreq[r].kind = "search" /\ hreq[r].resp = "503"
    /\ hreq[q].kind = "resolve" /\ hreq[q].pc = "usecase"
    /\ uc[q].pc = "r_fetch"

\* C18: a request cancelled while it waits for a slot ends without a response,
\* without a call of the use case, without a publish, and with the gate as it was.
C18_CancelledDoesNothing ==
  /\ [](\A r \in Reqs :
          (hreq[r].pc = "done" /\ hreq[r].acq = 0 /\ hreq[r].resp # "503") =>
            /\ hreq[r].resp = "none"
            /\ hreq[r].ctxDone
            /\ hreq[r].rel = 0
            /\ uc[r] = IdleCall
            /\ (MaxMsgs + r) \notin IdsOf(ready))
  /\ [][\A r \in Reqs :
          (AtSelect(r) /\ hreq[r].ctxDone /\ hreq'[r].pc = "done" /\ hreq'[r].acq = 0) =>
            /\ uploadLimiter' = uploadLimiter
            /\ uc' = uc
            /\ ready' = ready
            /\ photos' = photos /\ blobs' = blobs /\ users' = users]_vars

\* A request was cancelled while it waited behind a request that holds the only
\* slot, and has ended with nothing written.
C18_Witness ==
  \E r, q \in Reqs :
    /\ hreq[r].pc = "done" /\ hreq[r].resp = "none" /\ hreq[r].ctxDone
    /\ hreq[q].pc \in {"body", "usecase"}
    /\ uploadLimiter = GateCap
    /\ ready = <<>>

\* C19 as stated, the order of the two events: whenever the worker's handler has
\* returned for a request's task, the request has its 202 already.
C19_AsStated ==
  \A r \in Reqs :
    (mstat[MaxMsgs + r].okd \/ mstat[MaxMsgs + r].failed) => hreq[r].resp = "202"

\* C19, amended: no search request ever has a use-case call of its own; a request
\* whose publish returned nil can write its response at once, whatever the worker is
\* doing, and that response is 202, which no other request gets; a response once
\* written never changes; and no step of the worker, whatever the ingestion comes
\* to, changes a request. The response is not ordered before the ingestion.
C19_SearchIsFireAndForget ==
  /\ [](\A r \in Reqs :
          /\ uc[r] = IdleCall
          /\ hreq[r].pc = "pub_sent" => ENABLED HSearchReturn(r))
  /\ [][\A r \in Reqs :
          /\ (hreq[r].pc = "pub_sent" /\ hreq'[r].pc # "pub_sent") =>
                (hreq'[r].pc = "done" /\ hreq'[r].resp = "202")
          /\ (hreq'[r].resp = "202" /\ hreq[r].resp # "202") => hreq[r].pc = "pub_sent"
          /\ hreq[r].resp # "none" => hreq'[r] = hreq[r]]_vars
  /\ [][(cons' # cons \/ mstat' # mstat) => hreq' = hreq]_vars

\* C19 witness: one request was answered 202 and the worker's handler failed on its
\* task; the other's publish returned nil and the worker's handler has already
\* succeeded on its task while the request has not written its response yet.
C19_Witness ==
  \E r, s \in Reqs :
    /\ hreq[r].resp = "202"
    /\ mstat[MaxMsgs + r].failed /\ ~mstat[MaxMsgs + r].okd
    /\ hreq[s].pc = "pub_sent" /\ hreq[s].resp = "none"
    /\ mstat[MaxMsgs + s].okd

\* ------------------------------------------------------------------------
\* The round trip has returned: Save and the read both without an error.
RoundTripDone ==
  /\ SeqCall.op = "roundtrip"
  /\ SeqCall.pc = "done"
  /\ SeqCall.err = "nil"

\* C20 as stated: a record persisted with Save and read back under its external id
\* equals the saved record in every field but created-at/updated-at.
C20_AsStated == RoundTripDone => SeqCall.out = <<SeqCall.cur>>

\* C20, what the code guarantees: the record read back equals the saved one in
\* internal id, external id, owner, blob-store URL, source URL, title, description,
\* author, dimensions and counters, and in uploaded-at up to the column's
\* microseconds; with the implementation of internal/database/storage Save never
\* succeeds, so nothing is read back there.
C20_RoundTripUpToMicros ==
  /\ RoundTripDone =>
       /\ storeImpl = "postgres"
       /\ Len(SeqCall.out) = 1
       /\ SeqCall.out[1] \in photos
       /\ SeqCall.out[1] = [SeqCall.cur EXCEPT !.meta["uploaded_at"] = Timestamptz(@)]
       /\ SeqCall.out[1].id # NilUUID
       /\ SeqCall.out[1].userID \in users
  /\ (SeqCall.op = "roundtrip" /\ storeImpl = "storage" /\ "save" \in SeqCall.ops) =>
       (SeqCall.err = "PersistFailed" /\ photos = {})

\* A record without an uploaded-at was saved by postgres/client.go, which stamped it
\* with time.Now(); the row read back carries the rounded time, every other field as
\* saved.
C20_Witness ==
  /\ RoundTripDone
  /\ storeImpl = "postgres"
  /\ SeqCall.cur.meta["uploaded_at"] = <<"now", 2500>>
  /\ SeqCall.out[1].meta["uploaded_at"] = <<"now", 3000>>
  /\ SeqCall.out[1].id = SeqCall.cur.id
  /\ SeqCall.out[1].s3URL = SeqCall.cur.s3URL

\* ------------------------------------------------------------------------
\* C21: the loop works on one delivery at a time: it takes a delivery only at its
\* select, when the delivery before it (if any) has had its terminal action issued,
\* and while it decodes or handles a delivery that delivery has no action yet.
C21_OneAtATime ==
  /\ [](cons.pc \in {"decode", "handling"} => (cons.msg # NoMsg /\ cons.acts = <<>>))
  /\ [][(cons'.pc = "decode" /\ cons.pc # "decode") =>
          /\ cons.pc = "select"
          /\ cons.msg # NoMsg => Len(cons.acts) = 1]_vars

\* The handler runs for the first delivery while the second is already with the
\* consumer, waiting to be taken.
C21_Witness ==
  /\ cons.pc = "handling"
  /\ cons.msg.mid = 1
  /\ Len(inflight) = 1
  /\ inflight[1].mid = 2
  /\ ~mstat[2].invoked

\* C22: a closed delivery channel ends the loop for good: the channel is never
\* opened again, and once the loop has returned it takes no delivery, invokes no
\* handler and issues no action, whatever is left in the queue.
C22_ClosedIsTerminal ==
  /\ [][~chanOpen => ~chanOpen']_vars
  /\ [][cons.pc = "stopped" =>
          /\ cons'.pc = "stopped"
          /\ cons'.msg = cons.msg /\ cons'.acts = cons.acts
          /\ \A m \in MsgIDs : mstat'[m].invoked = mstat[m].invoked]_vars
  /\ [](~chanOpen => inflight = <<>>)

\* The channel closed under a live worker, the loop saw it and returned; a message
\* that was never handled is still in the queue.
C22_Witness ==
  /\ cons.pc = "stopped"
  /\ ~chanOpen
  /\ workerCtx = "live"
  /\ \E i \in 1..Len(ready) : ~mstat[ready[i].mid].invoked /\ ~mstat[ready[i].mid].malformed

\* ------------------------------------------------------------------------
\* The collaborator calls a resolve call has made when it fails with this error.
StepsUpTo(err) ==
  CASE err = "DedupLookupFailed" -> {"get"}
    [] err \in {"SourceFetchFailed", "SourceNotFound"} -> {"get", "fetch"}
    [] err \in {"BinaryDownloadFailed", "UnexpectedDownloadStatus"} ->
         {"get", "fetch", "download"}
    [] err = "BlobUploadFailed" -> {"get", "fetch", "download", "upload"}
    [] err = "AccountResolutionFailed" -> {"get", "fetch", "download", "upload", "account"}
    [] OTHER -> {"get", "fetch", "download", "upload", "account", "save"}

\* C23: a resolve call whose step fails returns that step's error having made the
\* calls up to the failed one and none after it; it reports success only for a row
\* found or after all six steps; and the photos table changes only in the step that
\* ends a resolve call with success.
C23_FailureSurfaced ==
  /\ [](SeqCall.op = "resolve" /\ SeqCall.pc = "done" =>
          /\ SeqCall.err # "nil" =>
               /\ SeqCall.ops = StepsUpTo(SeqCall.err)
               /\ SeqCall.cur = NoPhoto
               /\ (SeqCall.err = "DedupLookupFailed") = (SeqCall.hit = "error")
          /\ SeqCall.err = "nil" =>
               \/ SeqCall.hit = "found" /\ SeqCall.ops = {"get"}
               \/ SeqCall.hit = "absent" /\ SeqCall.ops = StepsUpTo("nil"))
  /\ [][(SeqCall.op = "resolve" /\ photos' # photos) =>
          (uc'[SeqCaller].pc = "done" /\ uc'[SeqCaller].err = "nil")]_vars

\* The first call failed at the last step: object uploaded, account resolved, Save
\* refused; the error is returned and the table is still empty.
C23_Witness ==
  /\ SeqCall.op = "resolve"
  /\ SeqCall.serial = 1
  /\ SeqCall.pc = "done"
  /\ SeqCall.err = "PersistFailed"
  /\ photos = {}
  /\ blobs # {}
  /\ users # {}

\* ------------------------------------------------------------------------
\* C24 as stated: a resolve call for an id the catalog does not know (404) reports
\* the source-not-found outcome, and a transport or authorization failure of the
\* fetch reports another one.
C24_AsStated ==
  (SeqCall.op = "resolve" /\ SeqCall.pc = "done") =>
    /\ SeqCall.fres = "notfound" => SeqCall.err = "SourceNotFound"
    /\ SeqCall.fres \in {"transport", "status"} => SeqCall.err = "SourceFetchFailed"

\* C24, what the code does: the client turns every non-200 answer, 404 included, into
\* an error, so the use case reports one and the same fetch failure for an unknown
\* id, a refused key and a failed exchange; its not-found branch is never taken.
C24_NotFoundIsAFetchError ==
  /\ \A c \in Callers : uc[c].err # "SourceNotFound"
  /\ (SeqCall.op = "resolve" /\ SeqCall.pc = "done"
        /\ SeqCall.fres \in {"notfound", "transport", "status", "decode"}) =>
       /\ SeqCall.err = "SourceFetchFailed"
       /\ SeqCall.cur = NoPhoto

\* The catalog answered 404 for "zz"; the call returned the fetch failure.
C24_Witness ==
  /\ SeqCall.op = "resolve"
  /\ SeqCall.id = "zz"
  /\ SeqCall.pc = "done"
  /\ SeqCall.fres = "notfound"
  /\ SeqCall.err = "SourceFetchFailed"

\* ------------------------------------------------ claims about the worker's tasks
\* C25: the handler reports failure for a task exactly when SearchAndSavePhotos
\* returned an error, which it does exactly when the search failed (nothing else
\* was called) or the system account could not be resolved (before any item); the
\* loop then rejects the message with requeue, and acknowledges it in every other
\* case, whatever happened to the single items.
C25_RequeueIffEngineError ==
  (cons.pc = "select" /\ cons.hres # "none") =>
     LET call == uc[SeqCaller]
         last == cons.acts[Len(cons.acts)]
     IN /\ call.op = "search" /\ call.pc = "done"
        /\ call.sargs = <<cons.payload.query, NormalizePage(cons.payload.page),
                          NormalizePerPage(cons.payload.perPage)>>
        /\ (cons.hres = "fail") = (call.err # "nil")
        /\ (call.err # "nil") =
              \/ call.err = "SourceFetchFailed" /\ call.pre = {"search"}
              \/ call.err = "AccountResolutionFailed" /\ call.pre = {"search", "account"}
        /\ call.err # "nil" => call.ilog = <<>>
        /\ Len(cons.acts) = 1
        /\ last.kind = IF cons.hres = "fail" THEN "nack_requeue" ELSE "ack"

\* A task requeued after a failed account resolution is delivered again, and this
\* time acknowledged although an item of the batch failed.
C25_Witness ==
  /\ cons.pc = "select" /\ cons.hres = "ok"
  /\ mstat[cons.msg.mid].failed
  /\ mstat[cons.msg.mid].acked
  /\ uc[SeqCaller].serial = 2
  /\ \E k \in 1..Len(uc[SeqCaller].ilog) : uc[SeqCaller].ilog[k].rec = NoPhoto

\* C26: a task whose handler has failed on every attempt so far has been rejected
\* with requeue each time and is still with the broker: it was never acknowledged
\* and never discarded. If it keeps failing, on a channel that stays open and a
\* worker that is not cancelled, it reaches the handler again and again without end.
C26_RequeuedForever ==
  /\ [](\A m \in MsgIDs :
          (mstat[m].failed /\ ~mstat[m].okd) =>
             /\ ~mstat[m].acked /\ ~mstat[m].dropped /\ ~mstat[m].malformed
             /\ m \in InBroker
             /\ (Finished /\ cons.msg.mid = m) =>
                  (cons.hres = "fail" /\ Len(cons.acts) = 1
                   /\ cons.acts[1].kind = "nack_requeue"))
  /\ \A m \in MsgIDs :
       ([]chanOpen /\ [](workerCtx = "live") /\ [](~mstat[m].okd) /\ <>(mstat[m].failed))
         => []<>(cons.pc = "handling" /\ cons.msg.mid = m /\ mstat[m].failed)

\* C26 witness: the first message failed, the second was acknowledged in between,
\* and the first has just failed again and is back at the head of the queue.
C26_Witness ==
  /\ Finished /\ cons.msg.mid = 1 /\ cons.hres = "fail"
  /\ mstat[2].acked
  /\ ~mstat[1].okd
  /\ ready # <<>> /\ Head(ready).mid = 1
  /\ chanOpen /\ workerCtx = "live"

\* C27: when a task is run again (a later handler run with the same search result),
\* the items PhotoStore already holds get the dedup lookup and nothing else, and come
\* back as the stored rows unless that lookup fails; download, upload and Save are
\* made only for items not yet stored; no external id ever has two rows; and while
\* every item of the result is stored, no step of the run downloads, uploads or
\* saves anything.
C27_RerunOnlyMissing ==
  /\ [](LET call == uc[SeqCaller]
        IN /\ (call.op = "search" /\ call.serial >= 2) =>
                \A i \in 1..Len(call.ilog) :
                  LET e == call.ilog[i]
                  IN /\ e.known => (e.ops = {"get"} /\ e.st \in {"existing", "skip_lookup"})
                     /\ (e.ops \cap {"download", "upload", "save"} # {}) => ~e.known
                     /\ e.st = "existing" =>
                          /\ e.known
                          /\ e.rec \in photos
                          /\ e.rec.unsplashID = call.items[i].unsplashID
                          /\ \E k \in 1..Len(call.out) : call.out[k] = e.rec
                     /\ e.st = "saved" => (~e.known /\ e.ops = {"get", "download", "upload", "save"})
           /\ \A extID \in ExtIDs : Cardinality(RowsOf(photos, extID)) <= 1)
  /\ [][LET call == uc[SeqCaller]
        IN (/\ call.op = "search"
            /\ call.items # <<>>
            /\ \A k \in 1..Len(call.items) :
                 RowsOf(photos, call.items[k].unsplashID) # {})
           => /\ photos' = photos
              /\ blobs' = blobs
              /\ uc'[SeqCaller].ops \subseteq {"get"}]_vars

\* C27 witness: the second run of the task ("q", 1, 3), after a first run that had
\* stored its first and third item only, has persisted the second item and returned
\* the other two from the store.
C27_Witness ==
  LET call == uc[SeqCaller]
  IN /\ call.op = "search" /\ call.serial = 2 /\ call.pc = "done"
     /\ cons.msg.mid = 2 /\ mstat[1].acked
     /\ Len(call.ilog) = 3
     /\ call.ilog[1].st = "existing"
     /\ call.ilog[2].st = "saved"
     /\ call.ilog[3].st = "existing"
     /\ Len(call.out) = 3
     /\ Cardinality(photos) = 3

\* ------------------------------------------------ claims about BlobStore keys
\* C28: the object key is the same function of the external id in both operations
\* and maps different ids to different keys; every object in BlobStore is the object
\* of one external id, every stored row points at the object of its own id, and
\* however often an id was ingested there is at most one object for it.
C28_OneObjectPerID ==
  /\ \A a \in ResolveArgs : ResolveS3Key(a) = BatchS3Key(a)
  /\ \A a, b \in ResolveArgs : (ResolveS3Key(a) = ResolveS3Key(b)) => a = b
  /\ \A key \in blobs :
       Cardinality({a \in ResolveArgs : key \in {ResolveS3Key(a), BatchS3Key(a)}}) = 1
  /\ \A a \in ResolveArgs :
       Cardinality({key \in blobs : key \in {ResolveS3Key(a), BatchS3Key(a)}}) <= 1
  /\ \A p \in photos : p.s3URL = UploadURL(BatchS3Key(p.unsplashID))
  /\ \A c \in Callers :
       (uc[c].cur # NoPhoto /\ uc[c].cur.s3URL # <<>>) =>
          /\ uc[c].cur.s3URL = UploadURL(ResolveS3Key(uc[c].cur.unsplashID))
          /\ ResolveS3Key(uc[c].cur.unsplashID) \in blobs

\* C28 witness: one batch met the external id "a" twice, uploaded it both times (its
\* Save failed each time), and BlobStore holds one object for "a" among three.
C28_Witness ==
  LET call == uc[SeqCaller]
  IN /\ call.op = "search" /\ call.pc = "done"
     /\ Len(call.ilog) = 4
     /\ call.items[1].unsplashID = "a" /\ call.items[4].unsplashID = "a"
     /\ "upload" \in call.ilog[1].ops /\ "upload" \in call.ilog[4].ops
     /\ BatchS3Key("a") \in blobs
     /\ Cardinality(blobs) = 3

\* ------------------------------------------------ claims about lost races
\* Caller c is at a statement that a uniqueness constraint will refuse: the INSERT
\* of the system account while the account exists, or the SavePhoto of a resolve
\* call while a row for its external id exists.
LostRace(c, what) ==
  IF what = "account" THEN uc[c].pc = "account_ins" /\ UsernameTaken(users)
  ELSE uc[c].pc = "r_save" /\ RowsOf(photos, uc[c].cur.unsplashID) # {}

\* C29 as stated: the operation that loses the race to a uniqueness constraint goes
\* on with the existing record: it does not fail, and it ends with the account id /
\* the Photo that is in the store.
C29_AsStated ==
  [][\A c \in Callers :
       /\ (LostRace(c, "account") /\ uc'[c] # uc[c]) =>
             (uc'[c].pc # "done" /\ uc'[c].sysUser \in users)
       /\ (LostRace(c, "photo") /\ uc'[c] # uc[c]) =>
             (uc'[c].err = "nil" /\ uc'[c].cur \in photos)]_vars

\* C29, what holds: the loser's statement changes nothing in the store, no second
\* row appears, and its call ends there with the error of the step: the account
\* INSERT that hits the unique username fails the call, and a SavePhoto that meets
\* an existing row fails the resolve call; no step reads the existing record back.
C29_LoserFails ==
  /\ [](Cardinality(users) <= 1
        /\ \A extID \in ExtIDs : Cardinality(RowsOf(photos, extID)) <= 1)
  /\ [][\A c \in Callers :
          /\ (LostRace(c, "account") /\ uc'[c] # uc[c]) =>
                /\ uc'[c].pc = "done" /\ uc'[c].err = "AccountResolutionFailed"
                /\ uc'[c].cur = NoPhoto /\ uc'[c].out = <<>>
                /\ users' = users /\ photos' = photos
          /\ (LostRace(c, "photo") /\ uc'[c] # uc[c]) =>
                /\ uc'[c].pc = "done" /\ uc'[c].err = "PersistFailed"
                /\ uc'[c].cur = NoPhoto
                /\ users' = users /\ photos' = photos]_vars

\* C29 witness: two resolve calls for the same id both missed the lookup and both
\* uploaded; one stored its row and returned it, the other's SavePhoto met that row
\* and its call ended with the persist error.
C29_Witness ==
  \E c, d \in Callers :
    /\ c # d
    /\ uc[c].op = "resolve" /\ uc[d].op = "resolve" /\ uc[c].id = uc[d].id
    /\ uc[c].pc = "done" /\ uc[c].err = "nil" /\ uc[c].hit = "absent"
    /\ uc[d].pc = "done" /\ uc[d].err = "PersistFailed" /\ uc[d].hit = "absent"
    /\ "save" \in uc[d].ops
    /\ storeImpl = "postgres"
    /\ Cardinality(RowsOf(photos, uc[c].id)) = 1

\* ------------------------------------------------ claims about the empty search
\* C30: a search call whose search succeeded with no results ends right there with
\* an empty list and no error, having called nothing but the search (no account, no
\* item step); and the step in which a search comes back empty or failed leaves
\* photos, users and blobs as they were.
C30_EmptySearchIsSuccess ==
  /\ [](LET call == uc[SeqCaller]
        IN (/\ call.op = "search"
            /\ call.fres = "ok"
            /\ SearchPhotosFromExternal(call.sargs[1], call.sargs[2], call.sargs[3]) = <<>>)
           => /\ call.pc = "done" /\ call.err = "nil"
              /\ call.out = <<>> /\ call.items = <<>> /\ call.ilog = <<>>
              /\ call.pre = {"search"} /\ call.ops = {}
              /\ call.sysUser = NilUUID)
  /\ [][LET call == uc[SeqCaller]
        IN (call.op = "search" /\ uc'[SeqCaller].op = "search"
            /\ uc'[SeqCaller].serial = call.serial
            /\ uc'[SeqCaller].items = <<>>)
           => (photos' = photos /\ users' = users /\ blobs' = blobs)]_vars

\* C30 witness: after a first call had stored rows and created the account, a search
\* for a query without matches has returned the empty list, and the stores are as
\* the first call left them.
C30_Witness ==
  LET call == uc[SeqCaller]
  IN /\ call.op = "search" /\ call.serial = 2 /\ call.pc = "done"
     /\ call.query = "nothing" /\ call.fres = "ok" /\ call.err = "nil"
     /\ call.out = <<>>
     /\ photos # {} /\ users # {} /\ blobs # {}

\* ------------------------------------------------ claims about the batch's account
\* C31: a search call enters the account step only from its search step, so once per
\* call and before any item; while it works on items it holds one account id, which
\* is in the users table and does not change; every item it persisted is a row owned
\* by that account; and a call whose account step failed has returned the error with
\* no item touched and photos and blobs as they were.
C31_AccountOncePerBatch ==
  /\ [](LET call == uc[SeqCaller]
        IN call.op = "search" =>
             /\ (call.items # <<>> /\ call.pc \notin {"account", "account_ins"}
                 /\ call.err # "AccountResolutionFailed") =>
                   /\ "account" \in call.pre
                   /\ call.sysUser # NilUUID /\ call.sysUser \in users
             /\ "account" \notin call.ops
             /\ \A i \in 1..Len(call.ilog) :
                  /\ "account" \notin call.ilog[i].ops
                  /\ call.ilog[i].st = "saved" =>
                       /\ call.ilog[i].rec.userID = call.sysUser
                       /\ \E row \in photos :
                            /\ row.unsplashID = call.items[i].unsplashID
                            /\ row.userID = call.sysUser
             /\ call.err = "AccountResolutionFailed" =>
                  /\ call.pc = "done" /\ call.out = <<>>
                  /\ call.ilog = <<>> /\ call.ops = {}
                  /\ call.pre = {"search", "account"})
  /\ [][LET call == uc[SeqCaller]
            next == uc'[SeqCaller]
        IN (call.op = "search" /\ next.op = "search" /\ next.serial = call.serial) =>
             /\ (next.pc = "account" /\ call.pc # "account") => call.pc = "s_search"
             /\ call.pc \in {"s_item", "s_download", "s_upload", "s_save"} =>
                  (next.sysUser = call.sysUser /\ users' = users)
             /\ (next.err = "AccountResolutionFailed" /\ call.pc # "done") =>
                  (photos' = photos /\ blobs' = blobs)]_vars

\* C31 witness: a batch of three has persisted all its items, the account was
\* created by this call, and the three rows are owned by it.
C31_Witness ==
  LET call == uc[SeqCaller]
  IN /\ call.op = "search" /\ call.pc = "done" /\ call.serial = 1
     /\ Len(call.ilog) = 3
     /\ \A i \in 1..3 : call.ilog[i].st = "saved"
     /\ call.sysUser = NewUUID(SeqCaller, 1, 9)
     /\ users = {call.sysUser}
     /\ \A row \in photos : row.userID = call.sysUser
     /\ Cardinality(photos) = 3

\* ------------------------------------------------ claims about stored records
\* C32: no step of any caller, in any interleaving, removes a row of photos or
\* changes one: every row of the table is a row of the table after the step, so the
\* set of stored external ids only grows, and a stored id keeps its one row.
C32_WriteOnce ==
  [][/\ \A row \in photos : row \in photos'
     /\ \A extID \in ExtIDs :
          RowsOf(photos, extID) # {} => RowsOf(photos', extID) = RowsOf(photos, extID)]_vars

\* C32 witness: a resolve call stored the row of "a"; afterwards a concurrent resolve
\* call lost its insert and a batch found the row: it is still the first call's row.
C32_Witness ==
  \E c, d \in Reqs :
    /\ c # d
    /\ uc[c].op = "resolve" /\ uc[c].pc = "done" /\ uc[c].err = "nil" /\ "save" \in uc[c].ops
    /\ uc[d].op = "resolve" /\ uc[d].pc = "done" /\ uc[d].err = "PersistFailed"
    /\ uc[d].id = uc[c].id
    /\ uc[SeqCaller].op = "search" /\ uc[SeqCaller].pc = "done"
    /\ Len(uc[SeqCaller].ilog) = 1 /\ uc[SeqCaller].ilog[1].st = "existing"
    /\ photos = {uc[SeqCaller].ilog[1].rec}
    /\ uc[SeqCaller].ilog[1].rec.id = uc[c].cur.id

\* ------------------------------------------------ claims about the worker and the gate
\* C33: the consume loop never waits on the gate and never moves it: whenever a
\* delivery is ready for it, is to be decoded or its handler is to return, that step
\* can be taken whatever the gate holds; no step of the loop changes the slot count
\* or a request; and the slots count the HTTP requests in their guarded body only,
\* so a handler invocation runs beside a full gate.
C33_WorkerOutsideGate ==
  /\ []((cons.pc = "select" /\ inflight # <<>>) => ENABLED ConsReceive)
  /\ [](cons.pc = "decode" => ENABLED ConsDecode)
  /\ [](cons.pc = "handling" => ENABLED ConsHandlerReturn)
  /\ [](uploadLimiter = Cardinality(Executing))
  /\ [][cons' # cons => (uploadLimiter' = uploadLimiter /\ hreq' = hreq)]_vars

\* C33 witness: every slot of the gate is held by a search request in its body, and
\* the loop has received a delivery at that full gate and is in its handler.
C33_Witness ==
  /\ uploadLimiter = GateCap
  /\ Cardinality(Executing) = GateCap
  /\ cons.pc = "handling"
  /\ mstat[cons.msg.mid].invoked
  /\ inflight = <<>> /\ ready = <<>>

\* ------------------------------------------------ claims about task loss
\* C35: a published message whose body decodes is with the broker (ready, pushed or
\* unacknowledged in the loop's hands) until the loop acknowledges it, which it does
\* only in the step in which the handler returns success for that very delivery; it
\* is never discarded. So after cancellation, after the channel closed and after the
\* worker process has gone, whatever was received and not finished is in the queue.
C35_NoTaskLost ==
  /\ [](\A m \in 1..npub :
          ~mstat[m].malformed =>
             /\ ~mstat[m].dropped
             /\ (m \in InBroker) # mstat[m].acked
             /\ mstat[m].acked => mstat[m].okd
             /\ (~chanOpen /\ ~mstat[m].acked) => m \in IdsOf(ready))
  /\ [][\A m \in 1..npub :
          (m \in InBroker /\ ~mstat[m].malformed /\ ~mstat'[m].malformed
           /\ m \notin IdsOf(ready') \cup IdsOf(inflight')
           /\ ~(cons'.msg.mid = m /\ cons'.held)) =>
             /\ cons.pc = "handling" /\ cons.msg.mid = m /\ cons.held
             /\ cons'.hres = "ok"
             /\ cons'.acts = <<Ack(TRUE)>>
             /\ mstat'[m].acked]_vars

\* C35 witness: the worker process went away while the handler was running for a
\* well-formed first message; that message, never acknowledged, is back at the head
\* of the queue ahead of the second one.
C35_Witness ==
  /\ workerCtx = "exited"
  /\ cons.pc = "killed"
  /\ cons.msg.mid = 1
  /\ mstat[1].invoked /\ ~mstat[1].okd /\ ~mstat[1].failed /\ ~mstat[1].acked
  /\ npub = 2
  /\ Len(ready) = 2 /\ ready[1].mid = 1

\* ------------------------------------------------ claims about skipped items
\* C36 as stated: a handler run that skipped items returns success, the message is
\* acknowledged and the queue does not hold it any more.
C36_AsStated ==
  LET call == uc[SeqCaller]
      m == cons.msg.mid
  IN (cons.hres = "ok" /\ \E i \in 1..Len(call.ilog) : call.ilog[i].rec = NoPhoto) =>
        (mstat[m].acked /\ m \notin InBroker)

\* C36, what the code does: a handler run whose batch entered its item loop ends
\* without error however many items it skipped, all of them included, and the loop
\* calls Ack for the message and nothing else. An Ack the broker gets removes the
\* message for good, and the handler is never called again for an acknowledged
\* message: what was skipped is not retried. An Ack on a channel lost during the run
\* returns an error the loop only logs: the message, never acknowledged, is back in
\* the queue, and its next delivery runs the whole task again.
C36_SkippedNotRetried ==
  /\ [](LET call == uc[SeqCaller]
            m == cons.msg.mid
        IN /\ (call.op = "search" /\ call.pc = "done" /\ call.ilog # <<>>) =>
                 (call.err = "nil" /\ Len(call.ilog) = Len(call.items))
           /\ (cons.hres \in {"ok", "fail"} /\ call.ilog # <<>>) =>
                 /\ cons.hres = "ok"
                 /\ cons.acts = <<Ack(cons.acts[1].ok)>>
                 /\ cons.acts[1].ok => (mstat[m].acked /\ m \notin InBroker)
                 /\ ~cons.acts[1].ok =>
                      /\ ~chanOpen
                      /\ ~mstat[m].acked
                      /\ m \in IdsOf(ready))
  /\ [](\A m \in MsgIDs : mstat[m].acked => m \notin InBroker)
  /\ [][(cons'.hres = "running" /\ cons.hres # "running") =>
          ~mstat[cons.msg.mid].acked]_vars

\* C36 witness: the only task published had three items and every one of them was
\* skipped; the channel was lost during the run, the handler returned success, the
\* Ack failed, and the task is in the queue again with nothing stored.
C36_Witness ==
  LET call == uc[SeqCaller]
  IN /\ npub = 1 /\ cons.pc = "select" /\ cons.msg.mid = 1 /\ cons.hres = "ok"
     /\ call.serial = 1 /\ Len(call.ilog) = 3
     /\ \A i \in 1..3 : call.ilog[i].rec = NoPhoto
     /\ call.out = <<>>
     /\ cons.acts = <<Ack(FALSE)>>
     /\ ~mstat[1].acked
     /\ Len(ready) = 1 /\ ready[1].mid = 1
     /\ photos = {}

\* ------------------------------------------------ claims about what is returned
\* The photos call c has handed (or will hand) to its caller: the Photo of a resolve
\* call that returned without error, the savedPhotos of a batch.
Returned(c) ==
  IF uc[c].op = "resolve"
  THEN IF uc[c].pc = "done" /\ uc[c].err = "nil" THEN {uc[c].cur} ELSE {}
  ELSE IF uc[c].op = "search" THEN {uc[c].out[i] : i \in 1..Len(uc[c].out)} ELSE {}

\* C37: every Photo a resolve call returned without error, and every Photo in the
\* output of a batch, is the one row PhotoStore holds for its external id, equal
\* field by field and so with the same internal id; this stays so for the rest of
\* the run, and a call whose insert met the row another ingestion had just written
\* returns no Photo of its own for that id.
C37_ReturnedIsStored ==
  /\ [](\A c \in Callers : \A p \in Returned(c) :
          /\ p.id # NilUUID
          /\ RowsOf(photos, p.unsplashID) = {p}
          /\ GetPhotosByUnsplashIDFromDB(photos, p.unsplashID).id = p.id)
  /\ [][\A c \in Callers :
          /\ (LostRace(c, "photo") /\ uc'[c] # uc[c]) => Returned(c)' = {}
          /\ (uc[c].pc = "s_save" /\ RowsOf(photos, uc[c].cur.unsplashID) # {}
                /\ uc'[c] # uc[c]) => Returned(c)' = Returned(c)]_vars

\* C37 witness: the batch and a resolve call ingested external id "a" side by side,
\* both past their lookups; the batch stored the row and has it in its output, the
\* resolve call lost the insert and ended with the persist error; the row in the
\* store is the batch's Photo, internal id included.
C37_Witness ==
  \E d \in Reqs :
    LET call == uc[SeqCaller]
    IN /\ call.op = "search" /\ call.pc = "done" /\ call.err = "nil"
       /\ Len(call.ilog) = 1 /\ call.ilog[1].st = "saved" /\ ~call.ilog[1].known
       /\ Len(call.out) = 1 /\ call.out[1].unsplashID = "a"
       /\ uc[d].op = "resolve" /\ uc[d].id = "a" /\ uc[d].hit = "absent"
       /\ uc[d].pc = "done" /\ uc[d].err = "PersistFailed" /\ "save" \in uc[d].ops
       /\ photos = {call.out[1]}
       /\ call.out[1].id = NewUUID(SeqCaller, call.serial, 1)

\* ------------------------------------------------ claims about progress at the gate
\* C38: under fair scheduling and terminating bodies the gate is never full for
\* good: every run comes to the point where every request has ended for good and
\* no slot is held. A request ends in one of three ways only: granted, with a
\* response and its slot released; cancelled at the select, without a response; or,
\* on the search endpoint only, timed out at the select with 503. A request past the
\* select holds one slot, and whenever the gate has room a request at the select
\* can be granted.
C38_GateNeverStuck ==
  /\ <>[](uploadLimiter = 0 /\ \A r \in Reqs : hreq[r].pc = "done")
  /\ [](\A r \in Reqs :
          /\ hreq[r].pc = "done" =>
                \/ hreq[r].acq = 1 /\ hreq[r].rel = 1 /\ hreq[r].resp \notin {"none", "503"}
                \/ hreq[r].acq = 0 /\ hreq[r].rel = 0 /\ hreq[r].resp = "none"
                     /\ hreq[r].ctxDone
                \/ hreq[r].acq = 0 /\ hreq[r].rel = 0 /\ hreq[r].resp = "503"
                     /\ hreq[r].kind = "search"
          /\ hreq[r].pc \in {"body", "usecase", "pub_sent", "pub_failed"} =>
                (hreq[r].acq = 1 /\ hreq[r].rel = 0)
          /\ AtSelect(r) => (hreq[r].acq = 0 /\ hreq[r].resp = "none")
          /\ (AtSelect(r) /\ uploadLimiter < GateCap) => ENABLED HAcquire(r))
  /\ [][\A r \in Reqs : hreq[r].pc = "done" => hreq'[r] = hreq[r]]_vars

\* C38 witness: one request held the only slot through a whole pipeline, answered
\* 200 and released it; the other, a resolve request whose client never went away,
\* was granted the slot after that release, holds it now and has found the row the
\* first one stored.
C38_Witness ==
  \E r, d \in Reqs :
    /\ r # d
    /\ hreq[d].pc = "done" /\ hreq[d].rel = 1 /\ hreq[d].resp = "200"
    /\ hreq[r].kind = "resolve" /\ ~hreq[r].ctxDone
    /\ hreq[r].pc = "usecase" /\ hreq[r].acq = 1
    /\ uploadLimiter = GateCap
    /\ photos # {} /\ uc[r].hit = "found"

====
